---- MODULE Spec2Model ----
(***************************************************************************)
(* Model of the TRTS engine of rigbyspace/emergance.                        *)
(*                                                                         *)
(* The policy-driven engine (class TRTS_Engine, the translation unit that  *)
(* defines PSI_F/PSI_R/PSI_D/PSI_C, KAPPA_A/D/F and ENG_A/M/R/Q) works on   *)
(* boost::rational<boost::multiprecision::cpp_int>.  cpp_int is unbounded,  *)
(* so integers are modelled as sign + little-endian limb sequences, and    *)
(* boost::rational keeps every value normalised (gcd 1, denominator > 0).  *)
(***************************************************************************)
EXTENDS Integers, Sequences, FiniteSets, TLC

(***************************************************************************)
(* HighPrecisionInt = boost::multiprecision::cpp_int                        *)
(***************************************************************************)
\* radix of one limb of the modelled cpp_int
Base == 1000

\* magnitude (limb sequence, least significant first, no leading zero limb)
\* of a machine integer n >= 0
RECURSIVE MagOf(_)
MagOf(n) == IF n = 0 THEN <<>> ELSE <<n % Base>> \o MagOf(n \div Base)

\* a magnitude of at most three limbs is computed on as a machine integer
IsShort(a) == Len(a) <= 3

ShortVal(a) ==
    IF a = <<>> THEN 0
    ELSE IF Len(a) = 1 THEN a[1]
    ELSE IF Len(a) = 2 THEN a[1] + Base * a[2]
    ELSE a[1] + Base * (a[2] + Base * a[3])

\* drop most-significant zero limbs
RECURSIVE MagStrip(_)
MagStrip(a) ==
    IF a = <<>> THEN <<>>
    ELSE IF a[Len(a)] = 0 THEN MagStrip(SubSeq(a, 1, Len(a) - 1))
    ELSE a

\* compare two magnitudes from limb i downwards (equal lengths)
RECURSIVE MagCmpFrom(_, _, _)
MagCmpFrom(a, b, i) ==
    IF i = 0 THEN 0
    ELSE IF a[i] < b[i] THEN -1
    ELSE IF a[i] > b[i] THEN 1
    ELSE MagCmpFrom(a, b, i - 1)

\* -1, 0, 1 as a < b, a = b, a > b
MagCmp(a, b) ==
    IF Len(a) < Len(b) THEN -1
    ELSE IF Len(a) > Len(b) THEN 1
    ELSE MagCmpFrom(a, b, Len(a))

RECURSIVE MagAddC(_, _, _)
MagAddC(a, b, c) ==
    IF a = <<>> /\ b = <<>> THEN (IF c = 0 THEN <<>> ELSE <<c>>)
    ELSE LET x == IF a = <<>> THEN 0 ELSE Head(a)
             y == IF b = <<>> THEN 0 ELSE Head(b)
             s == x + y + c
             ta == IF a = <<>> THEN <<>> ELSE Tail(a)
             tb == IF b = <<>> THEN <<>> ELSE Tail(b)
         IN  <<s % Base>> \o MagAddC(ta, tb, s \div Base)

MagAdd(a, b) ==
    IF IsShort(a) /\ IsShort(b) THEN MagOf(ShortVal(a) + ShortVal(b))
    ELSE MagAddC(a, b, 0)

\* a - b - borrow, limb by limb; requires a >= b
RECURSIVE MagSubB(_, _, _)
MagSubB(a, b, br) ==
    IF a = <<>> THEN <<>>
    ELSE LET y == IF b = <<>> THEN 0 ELSE Head(b)
             d == Head(a) - y - br
             tb == IF b = <<>> THEN <<>> ELSE Tail(b)
         IN  IF d < 0 THEN <<d + Base>> \o MagSubB(Tail(a), tb, 1)
             ELSE <<d>> \o MagSubB(Tail(a), tb, 0)

MagSub(a, b) ==
    IF IsShort(a) /\ IsShort(b) THEN MagOf(ShortVal(a) - ShortVal(b))
    ELSE MagStrip(MagSubB(a, b, 0))

\* a * d + c for one limb d
RECURSIVE MagMulSmallC(_, _, _)
MagMulSmallC(a, d, c) ==
    IF a = <<>> THEN (IF c = 0 THEN <<>> ELSE <<c>>)
    ELSE LET p == Head(a) * d + c
         IN  <<p % Base>> \o MagMulSmallC(Tail(a), d, p \div Base)

MagMulSmall(a, d) == IF d = 0 THEN <<>> ELSE MagMulSmallC(a, d, 0)

\* a magnitude times Base
MagShift(a) == IF a = <<>> THEN <<>> ELSE <<0>> \o a

RECURSIVE MagMulLong(_, _)
MagMulLong(a, b) ==
    IF a = <<>> \/ b = <<>> THEN <<>>
    ELSE MagAdd(MagMulSmall(a, Head(b)), MagShift(MagMulLong(a, Tail(b))))

MagMul(a, b) ==
    IF Len(a) + Len(b) <= 3 THEN MagOf(ShortVal(a) * ShortVal(b))
    ELSE MagMulLong(a, b)

\* largest q in lo..hi with b*q <= r (b*lo <= r is given)
RECURSIVE MagQuotDigit(_, _, _, _)
MagQuotDigit(r, b, lo, hi) ==
    IF lo >= hi THEN lo
    ELSE LET mid == (lo + hi + 1) \div 2
         IN  IF MagCmp(MagMulSmall(b, mid), r) <= 0
             THEN MagQuotDigit(r, b, mid, hi)
             ELSE MagQuotDigit(r, b, lo, mid - 1)

\* the limbs of a above the lowest s, as a machine integer (at most three)
TopVal(a, s) == ShortVal(SubSeq(a, s + 1, Len(a)))

\* quotient limb of r by b for b <= r < b * Base: the leading limbs bracket it
MagQuotLimb(r, b) ==
    LET s  == IF Len(b) > 2 THEN Len(b) - 2 ELSE 0
        bt == TopVal(b, s)
        rt == TopVal(r, s)
        lo == IF rt \div (bt + 1) < 1 THEN 1 ELSE rt \div (bt + 1)
        hi == IF rt \div bt > Base - 1 THEN Base - 1 ELSE rt \div bt
    IN  MagQuotDigit(r, b, lo, hi)

\* schoolbook division of a by b (b # 0), limbs i..1 of a still to bring down:
\* MagDivStep brings limb i down to the remainder r, MagDivLimb finds the
\* quotient limb d of the new remainder r1, MagDivTake takes b * d from it
RECURSIVE MagDivStep(_, _, _, _, _)
RECURSIVE MagDivLimb(_, _, _, _, _)
RECURSIVE MagDivTake(_, _, _, _, _, _)
MagDivTake(a, b, i, q, r1, d) ==
    MagDivStep(a, b, i - 1, <<d>> \o q,
               IF d = 0 THEN r1 ELSE MagSub(r1, MagMulSmall(b, d)))

MagDivLimb(a, b, i, q, r1) ==
    MagDivTake(a, b, i, q, r1, IF MagCmp(r1, b) < 0 THEN 0 ELSE MagQuotLimb(r1, b))

MagDivStep(a, b, i, q, r) ==
    IF i = 0 THEN [q |-> MagStrip(q), r |-> r]
    ELSE MagDivLimb(a, b, i, q, MagStrip(<<a[i]>> \o r))

\* quotient and remainder of a by b (b # 0)
MagDivMod(a, b) ==
    IF IsShort(a) /\ IsShort(b)
    THEN [q |-> MagOf(ShortVal(a) \div ShortVal(b)), r |-> MagOf(ShortVal(a) % ShortVal(b))]
    ELSE IF MagCmp(a, b) < 0 THEN [q |-> <<>>, r |-> a]
    ELSE MagDivStep(a, b, Len(a) - Len(b) + 1, <<>>,
                    MagStrip(SubSeq(a, Len(a) - Len(b) + 2, Len(a))))

RECURSIVE ShortGcd(_, _)
ShortGcd(x, y) == IF y = 0 THEN x ELSE ShortGcd(y, x % y)

RECURSIVE MagGcd(_, _)
MagGcd(a, b) ==
    IF b = <<>> THEN a
    ELSE IF IsShort(a) /\ IsShort(b) THEN MagOf(ShortGcd(ShortVal(a), ShortVal(b)))
    ELSE MagGcd(b, MagDivMod(a, b).r)

\* signed integers
BigOf(n) == IF n < 0 THEN [neg |-> TRUE, mag |-> MagOf(0 - n)]
            ELSE [neg |-> FALSE, mag |-> MagOf(n)]

BigMk(neg, mag) == [neg |-> (neg /\ mag # <<>>), mag |-> mag]

BigZero == BigOf(0)
BigOne == BigOf(1)

BigIsZero(a) == a.mag = <<>>

BigNeg(a) == BigMk(~a.neg, a.mag)

BigAbs(a) == BigMk(FALSE, a.mag)

BigAdd(a, b) ==
    IF a.neg = b.neg THEN BigMk(a.neg, MagAdd(a.mag, b.mag))
    ELSE IF MagCmp(a.mag, b.mag) >= 0 THEN BigMk(a.neg, MagSub(a.mag, b.mag))
    ELSE BigMk(b.neg, MagSub(b.mag, a.mag))

BigSub(a, b) == BigAdd(a, BigNeg(b))

BigMul(a, b) == BigMk(a.neg # b.neg, MagMul(a.mag, b.mag))

\* -1, 0, 1
BigCmp(a, b) ==
    IF a.neg /\ ~b.neg THEN -1
    ELSE IF ~a.neg /\ b.neg THEN 1
    ELSE IF a.neg THEN MagCmp(b.mag, a.mag)
    ELSE MagCmp(a.mag, b.mag)


(***************************************************************************)
(* Rational = boost::rational<HighPrecisionInt>: every value is kept in     *)
(* lowest terms with a positive denominator; division by a value whose     *)
(* numerator is zero throws boost::bad_rational (checked by the callers    *)
(* below through RatIsZero before rat_div is used).                        *)
(***************************************************************************)
\* Rational(n, d) for d # 0: normalise sign and divide out the gcd
RatReduce(n, d, g) ==
    [num |-> BigMk(n.neg # d.neg, MagDivMod(n.mag, g).q),
     den |-> BigMk(FALSE, MagDivMod(d.mag, g).q)]

Rational(n, d) ==
    IF BigIsZero(n) THEN [num |-> BigZero, den |-> BigOne]
    ELSE RatReduce(n, d, MagGcd(n.mag, d.mag))

RatOf(n, d) == Rational(BigOf(n), BigOf(d))

\* Rational(1, 1) and Rational(11, 1), already in lowest terms
RatOne == [num |-> BigOne, den |-> BigOne]
RatEleven == [num |-> BigOf(11), den |-> BigOne]

RatIsZero(r) == BigIsZero(r.num)

rat_add(a, b) ==
    Rational(BigAdd(BigMul(a.num, b.den), BigMul(b.num, a.den)), BigMul(a.den, b.den))

rat_sub(a, b) ==
    Rational(BigSub(BigMul(a.num, b.den), BigMul(b.num, a.den)), BigMul(a.den, b.den))

rat_mul(a, b) == Rational(BigMul(a.num, b.num), BigMul(a.den, b.den))

\* a / b for b # 0
rat_div(a, b) == Rational(BigMul(a.num, b.den), BigMul(a.den, b.num))

(***************************************************************************)
(* Policies                                                                *)
(***************************************************************************)
PsiMode == {"PSI_F", "PSI_R", "PSI_D", "PSI_C"}
KappaMode == {"KAPPA_A", "KAPPA_D", "KAPPA_F"}
EngineType == {"ENG_A", "ENG_M", "ENG_R", "ENG_Q"}

(***************************************************************************)
(* TRTS_Engine.  An engine value e is the record of the object's fields.   *)
(* Operations that can throw return [st, threw]: st is the object as the   *)
(* exception (if any) leaves it.                                           *)
(***************************************************************************)
\* TRTS_Engine::TRTS_Engine(psi, kappa, engine)
TRTS_Engine(psi, kappa, eng) ==
    [rho |-> 0, microtick |-> 0, step |-> 0,
     psi_mode |-> psi, kappa_mode_default |-> kappa, engine_mode |-> eng,
     upsilon |-> RatOne, beta |-> RatOne, koppa |-> RatOne,
     upsilon_num_unreduced |-> BigZero, beta_num_unreduced |-> BigZero]

\* TRTS_Engine::initialize_state(u_seed, b_seed)
initialize_state(e, u_seed, b_seed) ==
    [e EXCEPT !.upsilon = u_seed,
              !.beta = b_seed,
              !.koppa = RatOne,
              !.upsilon_num_unreduced = u_seed.num,
              !.beta_num_unreduced = b_seed.num]

\* the placeholder oracle: returns true for every argument
is_miller_rabin_prime(n) == TRUE

\* TRTS_Engine::is_prime_trigger()
is_prime_trigger(e) == is_miller_rabin_prime(BigAbs(e.upsilon_num_unreduced))

\* an override that leaves microtick 4 to the configured mode
current_kappa_mode_open_at_four(e) ==
    IF e.microtick = 7 THEN "KAPPA_F"
    ELSE IF e.microtick = 10 THEN "KAPPA_D"
    ELSE IF e.microtick = 1 THEN "KAPPA_A"
    ELSE e.kappa_mode_default

\* the positional override at the head of update_koppa
current_kappa_mode(e) ==
    IF e.microtick = 7 THEN "KAPPA_F"
    ELSE IF e.microtick = 10 THEN "KAPPA_D"
    ELSE IF e.microtick = 1 \/ e.microtick = 4 THEN "KAPPA_A"
    ELSE e.kappa_mode_default

\* a ratio feed without the reset of a zero koppa
koppa_ratio_feed_no_reset(e) ==
    IF RatIsZero(e.beta) THEN [st |-> e, threw |-> TRUE]
    ELSE [st |-> [e EXCEPT !.koppa = rat_mul(e.koppa, rat_div(e.upsilon, e.beta))],
          threw |-> FALSE]

\* KAPPA_F branch: koppa = koppa * (upsilon / beta), after the zero reset
koppa_ratio_feed(e) ==
    LET e1 == IF RatIsZero(e.koppa) THEN [e EXCEPT !.koppa = RatOne] ELSE e
    IN  IF RatIsZero(e1.beta) THEN [st |-> e1, threw |-> TRUE]
        ELSE [st |-> [e1 EXCEPT !.koppa = rat_mul(e1.koppa, rat_div(e1.upsilon, e1.beta))],
              threw |-> FALSE]

\* KAPPA_A branch: koppa = koppa + (upsilon - beta)
koppa_accumulate(e) ==
    [st |-> [e EXCEPT !.koppa = rat_add(e.koppa, rat_sub(e.upsilon, e.beta))],
     threw |-> FALSE]

\* a dump that neutralises koppa to 1/1 without dividing
koppa_dump_neutral(e) == [st |-> [e EXCEPT !.koppa = RatOne], threw |-> FALSE]

\* KAPPA_D branch: koppa = (upsilon / beta)
koppa_dump(e) ==
    IF RatIsZero(e.beta) THEN [st |-> e, threw |-> TRUE]
    ELSE [st |-> [e EXCEPT !.koppa = rat_div(e.upsilon, e.beta)], threw |-> FALSE]

\* an update_koppa that stores the positional override in the configuration
update_koppa_stores_mode(e, trigger) ==
    IF trigger = 0 THEN [st |-> e, threw |-> FALSE]
    ELSE LET mode == current_kappa_mode(e)
             e1 == [e EXCEPT !.kappa_mode_default = mode]
         IN  IF mode = "KAPPA_F" THEN koppa_ratio_feed(e1)
             ELSE IF mode = "KAPPA_A" THEN koppa_accumulate(e1)
             ELSE IF mode = "KAPPA_D" THEN koppa_dump(e1)
             ELSE [st |-> e1, threw |-> FALSE]

\* TRTS_Engine::update_koppa(trigger)
update_koppa(e, trigger) ==
    IF trigger = 0 THEN [st |-> e, threw |-> FALSE]
    ELSE LET mode == current_kappa_mode(e)
         IN  IF mode = "KAPPA_F" THEN koppa_ratio_feed(e)
             ELSE IF mode = "KAPPA_A" THEN koppa_accumulate(e)
             ELSE IF mode = "KAPPA_D" THEN koppa_dump(e)
             ELSE [st |-> e, threw |-> FALSE]

\* a rotational case that falls through to the additive update
rotational_as_additive(e) ==
    [e EXCEPT !.upsilon = rat_add(e.upsilon, rat_sub(e.upsilon, e.beta)),
              !.beta = rat_sub(e.beta, rat_sub(e.upsilon, e.beta))]

\* ENG_R branch: swap upsilon and beta through a temporary
rotational(e) == [e EXCEPT !.upsilon = e.beta, !.beta = e.upsilon]

\* the update of upsilon and beta selected by engine_mode
propagation_update(e, diff, delta) ==
    IF e.engine_mode = "ENG_Q"
      THEN [e EXCEPT !.upsilon = rat_add(e.upsilon, delta),
                     !.beta = rat_sub(e.beta, delta)]
    ELSE IF e.engine_mode = "ENG_A"
      THEN [e EXCEPT !.upsilon = rat_add(e.upsilon, diff),
                     !.beta = rat_sub(e.beta, diff)]
    ELSE IF e.engine_mode = "ENG_M"
      THEN [e EXCEPT !.upsilon = rat_add(e.upsilon, rat_mul(e.upsilon, delta)),
                     !.beta = rat_sub(e.beta, rat_mul(e.beta, delta))]
    ELSE IF e.engine_mode = "ENG_R" THEN rotational(e)
    ELSE e

\* a history update that adds delta's numerator on both sides
unreduced_history_update_both_add(e, delta) ==
    IF e.engine_mode = "ENG_Q"
    THEN [e EXCEPT !.upsilon_num_unreduced = BigAdd(e.upsilon_num_unreduced, delta.num),
                   !.beta_num_unreduced = BigAdd(e.beta_num_unreduced, delta.num)]
    ELSE e

\* the update of the unreduced history: ENG_Q only
unreduced_history_update(e, delta) ==
    IF e.engine_mode = "ENG_Q"
    THEN [e EXCEPT !.upsilon_num_unreduced = BigAdd(e.upsilon_num_unreduced, delta.num),
                   !.beta_num_unreduced = BigSub(e.beta_num_unreduced, delta.num)]
    ELSE e

\* the body of apply_propagation_engine once diff and delta are computed
propagation_with(e, diff, delta) ==
    unreduced_history_update(propagation_update(e, diff, delta), delta)

\* diff = upsilon - beta; delta = diff / 11
propagation_diff(e, diff) == propagation_with(e, diff, rat_div(diff, RatEleven))

\* TRTS_Engine::apply_propagation_engine()
apply_propagation_engine(e) == propagation_diff(e, rat_sub(e.upsilon, e.beta))

\* a psi-transform that hands koppa over: it leaves koppa at 1/1
psi_transform_spends_koppa(e) ==
    IF RatIsZero(e.beta) \/ RatIsZero(e.koppa) THEN [st |-> e, threw |-> TRUE]
    ELSE [st |-> [e EXCEPT !.upsilon = rat_div(e.koppa, e.beta),
                           !.beta = rat_div(e.upsilon, e.koppa),
                           !.koppa = RatOne],
          threw |-> FALSE]

\* TRTS_Engine::psi_transform(): upsilon = koppa / beta; beta = temp / koppa
psi_transform(e) ==
    IF RatIsZero(e.beta) THEN [st |-> e, threw |-> TRUE]
    ELSE LET e1 == [e EXCEPT !.upsilon = rat_div(e.koppa, e.beta)]
         IN  IF RatIsZero(e.koppa) THEN [st |-> e1, threw |-> TRUE]
             ELSE [st |-> [e1 EXCEPT !.beta = rat_div(e.upsilon, e.koppa)],
                   threw |-> FALSE]

is_emission_point(m) == m = 1 \/ m = 4 \/ m = 7 \/ m = 10
is_propagation_point(m) == m = 3 \/ m = 6 \/ m = 9
is_transformation_point(m) == m = 2 \/ m = 5 \/ m = 8 \/ m = 11

\* a counter that is incremented and never wrapped
next_microtick_nowrap(m) == m + 1

\* microtick = (microtick % 11) + 1
next_microtick(m) == (m % 11) + 1

\* step = (microtick - 1) / 3
step_of(m) == (m - 1) \div 3

\* a trigger that is left as the previous microtick set it
reset_rho_missing(e) == e

\* a reset of rho at the first microtick of a cycle only
reset_rho_at_cycle_start(e) == IF e.microtick = 1 THEN [e EXCEPT !.rho = 0] ELSE e

\* rho = 0 at the head of process_microtick
reset_rho(e) == [e EXCEPT !.rho = 0]

\* a forced mode that fires at every transformation point
should_transform_immediate(e) ==
    \/ e.psi_mode = "PSI_F"
    \/ e.psi_mode = "PSI_R" /\ e.rho > 0
    \/ e.psi_mode = "PSI_D" /\ (e.microtick = 11 \/ e.rho > 0)
    \/ e.psi_mode = "PSI_C" /\ e.koppa.num # e.koppa.den

\* a PSI_C decision that ignores koppa
should_transform_critical_always(e) ==
    \/ e.psi_mode = "PSI_F" /\ e.microtick = 11
    \/ e.psi_mode = "PSI_R" /\ e.rho > 0
    \/ e.psi_mode = "PSI_D" /\ (e.microtick = 11 \/ e.rho > 0)
    \/ e.psi_mode = "PSI_C"

\* a PSI_D decision that takes every transformation point
should_transform_dual_everywhere(e) ==
    \/ e.psi_mode = "PSI_F" /\ e.microtick = 11
    \/ e.psi_mode = "PSI_R" /\ e.rho > 0
    \/ e.psi_mode = "PSI_D"
    \/ e.psi_mode = "PSI_C" /\ e.koppa.num # e.koppa.den

\* should_transform of the transformation branch
should_transform(e) ==
    \/ e.psi_mode = "PSI_F" /\ e.microtick = 11
    \/ e.psi_mode = "PSI_R" /\ e.rho > 0
    \/ e.psi_mode = "PSI_D" /\ (e.microtick = 11 \/ e.rho > 0)
    \/ e.psi_mode = "PSI_C" /\ e.koppa.num # e.koppa.den

\* a head that leaves the engine where it is once beta is zero
begin_microtick_halts(e) ==
    IF RatIsZero(e.beta) THEN e
    ELSE reset_rho([e EXCEPT !.microtick = next_microtick(e.microtick),
                             !.step = step_of(next_microtick(e.microtick))])

\* head of process_microtick: microtick, step and rho
begin_microtick(e) ==
    reset_rho([e EXCEPT !.microtick = next_microtick(e.microtick),
                        !.step = step_of(next_microtick(e.microtick))])

\* emission branch, first statement: if (is_prime_trigger()) rho = 1
emission_check(e) ==
    IF is_emission_point(e.microtick) /\ is_prime_trigger(e)
    THEN [e EXCEPT !.rho = 1] ELSE e

\* emission branch, second statement: if (rho > 0) update_koppa(rho)
emission_update(e) ==
    IF is_emission_point(e.microtick) /\ e.rho > 0
    THEN update_koppa(e, e.rho) ELSE [st |-> e, threw |-> FALSE]

\* propagation branch
propagation(e) ==
    IF is_propagation_point(e.microtick) THEN apply_propagation_engine(e) ELSE e

\* the outcome of a psi_transform call, marked as one
transformed(t) == [st |-> t.st, threw |-> t.threw, psi |-> TRUE]

\* transformation branch
transformation(e) ==
    IF is_transformation_point(e.microtick) /\ should_transform(e)
    THEN transformed(psi_transform(e))
    ELSE [st |-> e, threw |-> FALSE, psi |-> FALSE]

\* the branches that follow the emission branch; k is its outcome, and an
\* exception thrown there leaves process_microtick at once
after_emission(k) ==
    IF k.threw THEN [st |-> k.st, threw |-> TRUE, psi |-> FALSE]
    ELSE transformation(propagation(k.st))

\* TRTS_Engine::process_microtick(); psi tells whether psi_transform was called
process_microtick(e) == after_emission(emission_update(emission_check(begin_microtick(e))))

\* the loop of execute_tick: iterations i..total, leaving at the first throw;
\* log lists, per process_microtick call made, the microtick it processed and
\* whether it called psi_transform
RECURSIVE execute_tick_loop(_, _, _, _)
RECURSIVE execute_tick_body(_, _, _, _)
\* the entry a process_microtick call leaves in the log
log_entry(r) == [microtick |-> r.st.microtick, psi |-> r.psi]

\* iteration i, r being the outcome of its process_microtick call
execute_tick_body(r, i, total, l) ==
    IF r.threw THEN [st |-> r.st, threw |-> TRUE, log |-> Append(l, log_entry(r))]
    ELSE execute_tick_loop(r.st, i + 1, total, Append(l, log_entry(r)))

execute_tick_loop(e, i, total, l) ==
    IF ~(i <= total) THEN [st |-> e, threw |-> FALSE, log |-> l]
    ELSE execute_tick_body(process_microtick(e), i, total, l)

\* a loop that stops one iteration early: for (i = 1; i < total; ++i)
execute_tick_short(e, total_microticks) ==
    execute_tick_loop(e, 2, total_microticks, <<>>)

\* TRTS_Engine::execute_tick(total_microticks): for (i = 1; i <= total; ++i)
execute_tick(e, total_microticks) == execute_tick_loop(e, 1, total_microticks, <<>>)

(***************************************************************************)
(* The driver: main() parses the policies and the seeds, constructs one    *)
(* engine, calls initialize_state and then execute_tick(11) per tick.  The  *)
(* public methods can be called in any order on a constructed engine.      *)
(***************************************************************************)
\* bounds of the exploration: process_microtick calls made in all, the latest
\* point (in calls made) at which initialize_state is called, and the width of
\* the integers followed
MaxAdvances == 12
MaxInitAt == 1
MaxLimbs == 4

\* default seeds of the command line: --upsilon 19/7, --beta 89/11
DefaultUpsilonSeed == RatOf(19, 7)
DefaultBetaSeed == RatOf(89, 11)

\* seeds as parse_rational builds them: Rational(num, den), den # 0
SeedValues == {RatOf(0, 1), RatOf(1, 1), RatOf(-1, 2)}
SeedPairs == (SeedValues \X SeedValues) \cup {<<DefaultUpsilonSeed, DefaultBetaSeed>>}

\* microtick counts handed to execute_tick
TickCounts == {11}

VARIABLES
    engine,     \* the TRTS_Engine object
    outcome,    \* how the last call ended: "ok" or "DivideByZero"
    last_call,  \* the last call made on the engine
    advances,   \* process_microtick calls made since construction
    since_init, \* process_microtick calls made since the last initialize_state
    seeds,      \* arguments of the last initialize_state
    log,        \* per process_microtick call of the last call: microtick, psi
    base,       \* engine at the start of the current run of single advances
    run,        \* single advances made since base
    args,       \* arguments of the function called on its own (none in the engine runs)
    ret         \* what that function returned or threw

vars == <<engine, outcome, last_call, advances, since_init, seeds, log, base, run, args, ret>>

\* widest integer held by the engine, in limbs
Widest(e) ==
    LET lens == {Len(e.upsilon.num.mag), Len(e.upsilon.den.mag),
                 Len(e.beta.num.mag), Len(e.beta.den.mag),
                 Len(e.koppa.num.mag), Len(e.koppa.den.mag),
                 Len(e.upsilon_num_unreduced.mag), Len(e.beta_num_unreduced.mag)}
    IN  CHOOSE n \in lens : \A k \in lens : k <= n

\* the exploration makes n advances from e only if every integer the engine
\* then holds fits MaxLimbs limbs
RECURSIVE Fits(_, _)
RECURSIVE FitsAfter(_, _)
FitsAfter(r, n) == Widest(r.st) <= MaxLimbs /\ (r.threw \/ Fits(r.st, n - 1))

Fits(e, n) == IF n = 0 THEN TRUE ELSE FitsAfter(process_microtick(e), n)

Outcome(threw) == IF threw THEN "DivideByZero" ELSE "ok"

Init ==
    /\ \E psi \in PsiMode, kappa \in KappaMode, eng \in EngineType :
          engine = TRTS_Engine(psi, kappa, eng)
    /\ outcome = "ok"
    /\ last_call = "construct"
    /\ advances = 0
    /\ since_init = 0
    /\ seeds = <<>>
    /\ log = <<>>
    /\ base = engine
    /\ run = 0
    /\ args = <<>>
    /\ ret = <<>>

\* engine.initialize_state(upsilon_seed, beta_seed)
Initialize(u_seed, b_seed) ==
    /\ advances <= MaxInitAt
    /\ engine' = initialize_state(engine, u_seed, b_seed)
    /\ outcome' = "ok"
    /\ last_call' = "initialize_state"
    /\ since_init' = 0
    /\ seeds' = <<u_seed, b_seed>>
    /\ log' = <<>>
    /\ base' = engine'
    /\ run' = 0
    /\ UNCHANGED <<advances, args, ret>>

\* engine.process_microtick()
ProcessMicrotick ==
    /\ advances < MaxAdvances
    /\ \E r \in {process_microtick(engine)} :
           /\ Widest(r.st) <= MaxLimbs
           /\ engine' = r.st
           /\ outcome' = Outcome(r.threw)
           /\ log' = <<log_entry(r)>>
    /\ LET chained == last_call = "process_microtick" /\ outcome = "ok" /\ run < 11
       IN  /\ base' = IF chained THEN base ELSE engine
           /\ run' = IF chained THEN run + 1 ELSE 1
    /\ last_call' = "process_microtick"
    /\ advances' = advances + 1
    /\ since_init' = since_init + 1
    /\ UNCHANGED <<seeds, args, ret>>

\* engine.execute_tick(total_microticks)
ExecuteTick(total_microticks) ==
    /\ advances + total_microticks <= MaxAdvances
    /\ Fits(engine, total_microticks)
    /\ \E r \in {execute_tick(engine, total_microticks)} :
           /\ engine' = r.st
           /\ outcome' = Outcome(r.threw)
           /\ log' = r.log
           /\ advances' = advances + Len(r.log)
           /\ since_init' = since_init + Len(r.log)
    /\ last_call' = "execute_tick"
    /\ base' = engine'
    /\ run' = 0
    /\ UNCHANGED <<seeds, args, ret>>

Next ==
    \/ \E p \in SeedPairs : Initialize(p[1], p[2])
    \/ ProcessMicrotick
    \/ \E n \in TickCounts : ExecuteTick(n)

Spec == Init /\ [][Next]_vars

\* shape of the state
TypeOK ==
    /\ engine.microtick \in 0..11
    /\ engine.rho \in {0, 1}
    /\ outcome \in {"ok", "DivideByZero"}
    /\ advances \in 0..MaxAdvances


(***************************************************************************)
(* apply_propagation_engine on its own: an engine in ENG_R mode holding any *)
(* pair of a bounded set, to which the propagation engine is applied        *)
(* back-to-back.  base keeps the engine as seeded, run counts applications. *)
(***************************************************************************)
MaxRotNum == 3
MaxRotDen == 3
MaxApplications == 2

RotValues == {RatOf(n, d) : n \in (0 - MaxRotNum)..MaxRotNum, d \in 1..MaxRotDen}

InitRot ==
    /\ \E psi \in PsiMode, kappa \in KappaMode, u \in RotValues, b \in RotValues :
          /\ engine = initialize_state(TRTS_Engine(psi, kappa, "ENG_R"), u, b)
          /\ seeds = <<u, b>>
    /\ outcome = "ok"
    /\ last_call = "initialize_state"
    /\ advances = 0
    /\ since_init = 0
    /\ log = <<>>
    /\ base = engine
    /\ run = 0
    /\ args = <<>>
    /\ ret = <<>>

\* engine.apply_propagation_engine()
ApplyPropagation ==
    /\ run < MaxApplications
    /\ engine' = apply_propagation_engine(engine)
    /\ run' = run + 1
    /\ last_call' = "apply_propagation_engine"
    /\ UNCHANGED <<outcome, advances, since_init, seeds, log, base, args, ret>>

NextRot == ApplyPropagation

SpecRot == InitRot /\ [][NextRot]_vars

(***************************************************************************)
(* Functions called on their own.  The specifications below call one       *)
(* function on arguments drawn from a bounded set: args holds the          *)
(* arguments, ret what the call returned or threw, last_call the function  *)
(* called ("start" before the call).  No engine runs in them.              *)
(***************************************************************************)
NoEngineRun ==
    /\ engine = <<>>
    /\ outcome = "ok"
    /\ advances = 0
    /\ since_init = 0
    /\ seeds = <<>>
    /\ log = <<>>
    /\ base = <<>>
    /\ run = 0

\* the call of a function on args, leaving result
Call(name, result) ==
    /\ last_call = "start"
    /\ last_call' = name
    /\ ret' = result
    /\ UNCHANGED <<engine, outcome, advances, since_init, seeds, log, base, run, args>>

(***************************************************************************)
(* parse_rational.  A text is a sequence of characters.  The texts drawn   *)
(* are those whose integer parts are not empty and carry no leading zero   *)
(* (cpp_int's string constructor reads a leading 0 as a radix prefix).     *)
(***************************************************************************)
MaxTextLen == 4

Digits == {"0", "2", "4", "7"}
TextChars == Digits \cup {"/", "x"}

DigitChars == <<"0", "1", "2", "3", "4", "5", "6", "7", "8", "9">>
DigitVal(c) == (CHOOSE i \in 1..10 : DigitChars[i] = c) - 1

\* value of a sequence of decimal digits
RECURSIVE DecVal(_)
DecVal(s) ==
    IF s = <<>> THEN 0
    ELSE 10 * DecVal(SubSeq(s, 1, Len(s) - 1)) + DigitVal(s[Len(s)])

\* std::string::find('/'): position of the first '/', 0 for npos
RECURSIVE FindSlashFrom(_, _)
FindSlashFrom(s, i) ==
    IF i > Len(s) THEN 0
    ELSE IF s[i] = "/" THEN i
    ELSE FindSlashFrom(s, i + 1)

find_slash(s) == FindSlashFrom(s, 1)

\* HighPrecisionInt(std::string): the decimal value, or std::runtime_error
\* when a character is no digit
HighPrecisionIntOf(s) ==
    IF \E i \in 1..Len(s) : s[i] \notin Digits
    THEN [threw |-> "runtime_error", val |-> BigZero]
    ELSE [threw |-> "none", val |-> BigOf(DecVal(s))]

\* Rational(n, d) on the two converted strings: the conversions come first,
\* then boost::rational's constructor, which throws bad_rational on a zero
\* denominator and normalises otherwise
RationalOfParts(n, d) ==
    IF n.threw # "none" \/ d.threw # "none"
    THEN [threw |-> "runtime_error", val |-> RatOne]
    ELSE IF BigIsZero(d.val) THEN [threw |-> "bad_rational", val |-> RatOne]
    ELSE [threw |-> "none", val |-> Rational(n.val, d.val)]

\* the text before and after position slash
NumText(s, slash) == SubSeq(s, 1, slash - 1)
DenText(s, slash) == SubSeq(s, slash + 1, Len(s))

parse_rational_at(s, slash) ==
    IF slash = 0
    THEN RationalOfParts(HighPrecisionIntOf(s), [threw |-> "none", val |-> BigOne])
    ELSE RationalOfParts(HighPrecisionIntOf(NumText(s, slash)),
                         HighPrecisionIntOf(DenText(s, slash)))

\* parse_rational(s)
parse_rational(s) == parse_rational_at(s, find_slash(s))

\* an integer part the conversion is modelled for
PlainPart(s) == s # <<>> /\ (s[1] = "0" => Len(s) = 1)

Texts ==
    {s \in UNION {[1..n -> TextChars] : n \in 1..MaxTextLen} :
        IF find_slash(s) = 0 THEN PlainPart(s)
        ELSE PlainPart(NumText(s, find_slash(s))) /\ PlainPart(DenText(s, find_slash(s)))}

InitParse ==
    /\ NoEngineRun
    /\ last_call = "start"
    /\ args \in {<<s>> : s \in Texts}
    /\ ret = <<>>

ParseRational == Call("parse_rational", parse_rational(args[1]))

NextParse == ParseRational

SpecParse == InitParse /\ [][NextParse]_vars

(***************************************************************************)
(* The C engine with its own command line (run_trts): int64_t fields, no   *)
(* normalisation.  An integer is kept as its exact value; an operation     *)
(* whose exact result leaves the int64_t range is a signed overflow, which *)
(* is undefined: the builds either wrap modulo 2^64 or trap.               *)
(***************************************************************************)
Two16 == BigOf(65536)
Two32 == BigMul(Two16, Two16)
Two63 == BigMul(BigMul(Two32, Two16), BigOf(32768))
Two64 == BigMul(Two32, Two32)

\* INT64_MIN <= x <= INT64_MAX
In64(x) ==
    \/ Len(x.mag) <= 6
    \/ IF x.neg THEN MagCmp(x.mag, Two63.mag) <= 0 ELSE MagCmp(x.mag, Two63.mag) < 0

\* the residue r in 0..2^64-1 as the int64_t of that bit pattern
Signed64(r) == IF MagCmp(r.mag, Two63.mag) >= 0 THEN BigSub(r, Two64) ELSE r

\* x modulo 2^64, in 0..2^64-1, from the remainder m of |x|
Residue64(x, m) ==
    IF m = <<>> THEN BigZero
    ELSE IF x.neg THEN BigSub(Two64, BigMk(FALSE, m))
    ELSE BigMk(FALSE, m)

\* two's-complement wrap of the exact value x
Wrap64(x) ==
    IF In64(x) THEN x ELSE Signed64(Residue64(x, MagDivMod(x.mag, Two64.mag).r))

\* an int64_t operation of exact result x: the value a wrapping build stores,
\* and whether the operation overflowed
Int64Op(x) == [v |-> Wrap64(x), of |-> ~In64(x)]

mul64(a, b) == Int64Op(BigMul(a, b))
add64(a, b) == Int64Op(BigAdd(a, b))

\* (Rational){num, den} out of two int64_t results; of: some operation overflowed
RawRational(n, d, of) == [num |-> n.v, den |-> d.v, of |-> (of \/ n.of \/ d.of)]

\* r_add: {a.num * b.den + b.num * a.den, a.den * b.den}
r_add_sum(p, q, d) == RawRational(add64(p.v, q.v), d, p.of \/ q.of)
r_add(a, b) == r_add_sum(mul64(a.num, b.den), mul64(b.num, a.den), mul64(a.den, b.den))

\* r_mul: {a.num * b.num, a.den * b.den}
r_mul(a, b) == RawRational(mul64(a.num, b.num), mul64(a.den, b.den), FALSE)

\* r_div: {a.num * b.den, a.den * b.num}
r_div(a, b) == RawRational(mul64(a.num, b.den), mul64(a.den, b.num), FALSE)

\* (Rational){n, d} of two small literals
RawOf(n, d) == [num |-> BigOf(n), den |-> BigOf(d), of |-> FALSE]

\* r_div(x, (Rational){2,1}) where x is itself the result of an operation
r_half(x) == RawRational(mul64(x.num, BigOne), mul64(x.den, BigOf(2)), x.of)

\* the loop of is_prime_preserve_sign: for (i = 5; i * i <= n; i += 6)
RECURSIVE PrimeLoop(_, _)
PrimeLoop(n, i) ==
    IF ~(i * i <= n) THEN TRUE
    ELSE IF n % i = 0 \/ n % (i + 2) = 0 THEN FALSE
    ELSE PrimeLoop(n, i + 6)

\* is_prime_preserve_sign(n) for a machine integer n
is_prime_preserve_sign_abs(n) ==
    IF n <= 1 THEN FALSE
    ELSE IF n <= 3 THEN TRUE
    ELSE IF n % 2 = 0 \/ n % 3 = 0 THEN FALSE
    ELSE PrimeLoop(n, 5)

is_prime_preserve_sign(x) == is_prime_preserve_sign_abs(ShortVal(x.mag))

\* atoi: the value of the longest prefix of decimal digits (0 if there is none)
RECURSIVE DigitPrefix(_, _)
DigitPrefix(s, i) ==
    IF i > Len(s) THEN Len(s)
    ELSE IF \E k \in 1..10 : DigitChars[k] = s[i] THEN DigitPrefix(s, i + 1)
    ELSE i - 1

atoi(s) == DecVal(SubSeq(s, 1, DigitPrefix(s, 1)))

\* run_trts: the locals at loop entry
run_trts_entry(config) ==
    [u |-> config.seed_u, b |-> config.seed_b, k |-> config.seed_k,
     rho |-> 0, tick |-> 0, mt |-> 1, of |-> FALSE]

\* a (Rational){..} result stored into a local; of keeps whether an operation
\* of this microtick overflowed
StoreU(st, r) == [st EXCEPT !.u = [num |-> r.num, den |-> r.den], !.of = st.of \/ r.of]
StoreB(st, r) == [st EXCEPT !.b = [num |-> r.num, den |-> r.den], !.of = st.of \/ r.of]
StoreK(st, r) == [st EXCEPT !.k = [num |-> r.num, den |-> r.den], !.of = st.of \/ r.of]

IsEpsilon(mt) == mt = 1 \/ mt = 4 \/ mt = 7 \/ mt = 10
IsMu(mt) == mt = 2 \/ mt = 5 \/ mt = 8 \/ mt = 11
IsPhi(mt) == mt = 3 \/ mt = 6 \/ mt = 9

\* an EPSILON case whose psi_behavior 2 fires at the microtick it is in
trts_epsilon_mu_fires(config, st) ==
    IF \/ config.psi_behavior = 0
       \/ config.psi_behavior = 1 /\ is_prime_preserve_sign(st.u.num)
       \/ config.psi_behavior = 2
       \/ config.psi_behavior = 3 /\ (is_prime_preserve_sign(st.u.num) \/ st.mt = 10)
    THEN [st EXCEPT !.rho = (st.rho % 4) + 1]
    ELSE st

\* case 1: case 4: case 7: case 10 (EPSILON)
trts_epsilon(config, st) ==
    IF \/ config.psi_behavior = 0
       \/ config.psi_behavior = 1 /\ is_prime_preserve_sign(st.u.num)
       \/ config.psi_behavior = 2 /\ IsMu(st.mt)
       \/ config.psi_behavior = 3 /\ (is_prime_preserve_sign(st.u.num) \/ st.mt = 10)
    THEN [st EXCEPT !.rho = (st.rho % 4) + 1]
    ELSE st

\* case 2: case 5: case 8: case 11 (MU)
trts_mu(config, st) ==
    IF st.rho > 0
    THEN IF config.engine_type = 0 THEN StoreU(st, r_add(st.u, st.k))
         ELSE IF config.engine_type = 1 THEN StoreU(st, r_mul(st.u, st.k))
         ELSE IF config.engine_type = 2 THEN StoreU(st, r_half(r_add(st.u, st.k)))
         ELSE st
    ELSE st

\* case 3: case 6: case 9 (PHI)
trts_phi(config, st) ==
    IF config.engine_type = 0 THEN StoreB(st, r_add(st.u, st.b))
    ELSE IF config.engine_type = 1 THEN StoreB(st, r_mul(st.u, st.b))
    ELSE IF config.engine_type = 2 THEN StoreB(st, r_half(r_add(st.u, st.b)))
    ELSE st

\* switch (mt)
trts_switch(config, st) ==
    IF IsEpsilon(st.mt) THEN trts_epsilon(config, st)
    ELSE IF IsMu(st.mt) THEN trts_mu(config, st)
    ELSE IF IsPhi(st.mt) THEN trts_phi(config, st)
    ELSE st

\* switch (config.koppa_mode)
trts_koppa(config, st) ==
    IF config.koppa_mode = 0 /\ st.mt = 11 THEN [st EXCEPT !.k = config.seed_k]
    ELSE IF config.koppa_mode = 2 /\ st.mt = 11 /\ st.rho > 0
    THEN StoreK(st, r_add(st.k, RawOf(st.rho, 1)))
    ELSE st

\* mt++ of the inner loop, tick++ of the outer one
trts_advance(st) ==
    IF st.mt = 11 THEN [st EXCEPT !.mt = 1, !.tick = st.tick + 1]
    ELSE [st EXCEPT !.mt = st.mt + 1]

\* one iteration of the inner loop of run_trts, on a build that wraps
trts_microtick(config, st) ==
    trts_advance(trts_koppa(config, trts_switch(config, [st EXCEPT !.of = FALSE])))

\* main of the C engine: the option loop overwrites the defaults
trts_main(cl) ==
    [seed_u |-> cl.u, seed_b |-> cl.b, seed_k |-> cl.k,
     psi_behavior |-> atoi(cl.p), koppa_mode |-> atoi(cl.o), engine_type |-> atoi(cl.e),
     total_ticks |-> cl.t]

MaxTrtsTicks == 4
MaxPrimeArg == 10000

\* option arguments of -p, -o, -e
PolicyTokens == {<<"0">>, <<"1">>, <<"2">>, <<"3">>, <<"7">>, <<"x">>}

\* seeds as parse_rational of the C engine returns them: any fields, den # 0
TrtsSeedPairs ==
    {<<[num |-> BigOf(2), den |-> BigOf(7)], [num |-> BigOf(3), den |-> BigOf(11)]>>,
     <<[num |-> BigOf(5), den |-> BigOf(7)], [num |-> BigOf(13), den |-> BigOf(11)]>>}
TrtsKoppaSeeds ==
    {[num |-> BigOne, den |-> BigOne], [num |-> BigOne, den |-> Two32]}

CommandLines ==
    {[p |-> p, o |-> o, e |-> e, u |-> ub[1], b |-> ub[2], k |-> k, t |-> MaxTrtsTicks] :
        p \in PolicyTokens, o \in PolicyTokens, e \in PolicyTokens,
        ub \in TrtsSeedPairs, k \in TrtsKoppaSeeds}

InitTrts ==
    /\ args \in CommandLines
    /\ last_call = "start"
    /\ ret = <<>>
    /\ engine = <<>>
    /\ outcome = "ok"
    /\ advances = 0
    /\ since_init = 0
    /\ seeds = <<>>
    /\ log = <<>>
    /\ base = <<>>
    /\ run = 0

\* main up to the call of run_trts; ret is the config handed over
TrtsMain ==
    /\ last_call = "start"
    /\ last_call' = "main"
    /\ ret' = trts_main(args)
    /\ engine' = run_trts_entry(ret')
    /\ UNCHANGED <<outcome, advances, since_init, seeds, log, base, run, args>>

TrtsRunning ==
    /\ last_call \in {"main", "run_trts"}
    /\ engine.tick < ret.total_ticks
    /\ (ret.psi_behavior \in {1, 3} /\ IsEpsilon(engine.mt)) =>
            (Len(engine.u.num.mag) <= 2 /\ ShortVal(engine.u.num.mag) <= MaxPrimeArg)

\* one iteration of the inner loop; a signed overflow in it wraps
TrtsMicrotick ==
    /\ TrtsRunning
    /\ \E st \in {trts_microtick(ret, engine)} :
          /\ engine' = st
          /\ outcome' = IF st.of THEN "signed overflow" ELSE "ok"
    /\ last_call' = "run_trts"
    /\ advances' = advances + 1
    /\ UNCHANGED <<since_init, seeds, log, base, run, args, ret>>

\* one iteration of the inner loop; a signed overflow in it traps
TrtsTrap ==
    /\ TrtsRunning
    /\ trts_microtick(ret, engine).of
    /\ last_call' = "trap"
    /\ outcome' = "signed overflow"
    /\ UNCHANGED <<engine, advances, since_init, seeds, log, base, run, args, ret>>

NextTrts == TrtsMain \/ TrtsMicrotick \/ TrtsTrap

SpecTrts == InitTrts /\ [][NextTrts]_vars

\* boost::rational<HighPrecisionInt> arithmetic on its own
MaxOperand == 3

\* numerator and denominator handed to the Rational constructor
Operands == {<<n, d>> : n \in (0 - MaxOperand)..MaxOperand, d \in 1..MaxOperand}

InitArith ==
    /\ args \in Operands \X Operands
    /\ ret = <<>>
    /\ last_call = "start"
    /\ NoEngineRun

\* Rational(a, b) + Rational(c, d)
RatAdd == Call("operator+", [threw |-> "none",
                             val |-> rat_add(RatOf(args[1][1], args[1][2]),
                                             RatOf(args[2][1], args[2][2]))])

\* Rational(a, b) * Rational(c, d)
RatMul == Call("operator*", [threw |-> "none",
                             val |-> rat_mul(RatOf(args[1][1], args[1][2]),
                                             RatOf(args[2][1], args[2][2]))])

\* Rational(a, b) / Rational(c, d): boost throws bad_rational on a zero divisor
RatDiv == Call("operator/",
               IF args[2][1] = 0 THEN [threw |-> "bad_rational", val |-> RatOne]
               ELSE [threw |-> "none",
                     val |-> rat_div(RatOf(args[1][1], args[1][2]),
                                     RatOf(args[2][1], args[2][2]))])

\* r_div((Rational){a, b}, (Rational){c, d}) of the C engine
RDiv == Call("r_div", r_div(RawOf(args[1][1], args[1][2]), RawOf(args[2][1], args[2][2])))

NextArith == RatAdd \/ RatMul \/ RatDiv \/ RDiv

SpecArith == InitArith /\ [][NextArith]_vars

\* the primality tests on their own, on machine-size integers
MaxPrimeN == 50

Abs(n) == IF n < 0 THEN 0 - n ELSE n

\* (x * y) % n on cpp_int operands, which do not overflow: wide products are
\* formed limb by limb
mulmod(x, y, n) ==
    IF x < 32768 /\ y < 65536 THEN (x * y) % n
    ELSE ShortVal(MagDivMod(MagMul(MagOf(x), MagOf(y)), MagOf(n)).r)

\* boost::multiprecision::powm(x, 2, n)
powm_square(x, n) == mulmod(x, x, n)

RECURSIVE powm(_, _, _)
\* boost::multiprecision::powm(a, e, n)
powm(a, e, n) ==
    IF e = 0 THEN 1 % n
    ELSE IF e % 2 = 0 THEN powm_square(powm(a, e \div 2, n), n)
    ELSE mulmod(a, powm(a, e - 1, n), n)

RECURSIVE mr_d(_)
\* while (d % 2 == 0) { d /= 2; s++; }: the final d
mr_d(d) == IF d % 2 = 0 THEN mr_d(d \div 2) ELSE d

RECURSIVE mr_s(_)
\* while (d % 2 == 0) { d /= 2; s++; }: the final s
mr_s(d) == IF d % 2 = 0 THEN 1 + mr_s(d \div 2) ELSE 0

test_bases == <<2, 3, 5, 7, 11, 13, 17, 19, 23, 29>>

RECURSIVE mr_is_composite(_, _, _, _)
\* for (int r = 1; r < s; ++r): the value of is_composite after the loop,
\* entered with x squared
mr_squared(x, r, s, abs_n) ==
    IF x = abs_n - 1 THEN FALSE ELSE mr_is_composite(x, r + 1, s, abs_n)

mr_is_composite(x, r, s, abs_n) ==
    IF r >= s THEN TRUE ELSE mr_squared(powm_square(x, abs_n), r, s, abs_n)

RECURSIVE mr_bases(_, _, _, _)
\* the body of the loop over test_bases, x = powm(a, d, abs_n)
mr_base(x, i, d, s, abs_n) ==
    IF x = 1 \/ x = abs_n - 1 THEN mr_bases(i + 1, d, s, abs_n)
    ELSE IF mr_is_composite(x, 1, s, abs_n) THEN FALSE
    ELSE mr_bases(i + 1, d, s, abs_n)

\* for (int base_int : test_bases)
mr_bases(i, d, s, abs_n) ==
    IF i > Len(test_bases) THEN TRUE
    ELSE IF test_bases[i] >= abs_n THEN TRUE
    ELSE mr_base(powm(test_bases[i], d, abs_n), i, d, s, abs_n)

\* TRTS_Engine::is_miller_rabin_prime of trts.h on abs_n
miller_rabin_abs(abs_n) ==
    IF abs_n <= 1 THEN FALSE
    ELSE IF abs_n <= 3 THEN TRUE
    ELSE IF abs_n % 2 = 0 THEN FALSE
    ELSE mr_bases(1, mr_d(abs_n - 1), mr_s(abs_n - 1), abs_n)

\* TRTS_Engine::is_miller_rabin_prime(n, k = 10) of trts.h
trts_h_is_miller_rabin_prime(n) == miller_rabin_abs(Abs(n))

RECURSIVE external_loop(_, _)
\* for (int64_t i = 3; i * i <= abs_n; i += 2)
external_loop(abs_n, i) ==
    IF i * i > abs_n THEN TRUE
    ELSE IF abs_n % i = 0 THEN FALSE
    ELSE external_loop(abs_n, i + 2)

\* external_is_prime(n) of the C engine with Fibonacci seeds
external_is_prime(n) ==
    IF n < 2 THEN FALSE
    ELSE IF n = 2 THEN TRUE
    ELSE IF n % 2 = 0 THEN FALSE
    ELSE external_loop(Abs(n), 3)

InitPrime ==
    /\ args \in {<<n>> : n \in (0 - MaxPrimeN)..MaxPrimeN}
    /\ ret = <<>>
    /\ last_call = "start"
    /\ NoEngineRun

IsMillerRabinPrime == Call("is_miller_rabin_prime", is_miller_rabin_prime(args[1]))

TrtsHIsMillerRabinPrime ==
    Call("TRTS_Engine::is_miller_rabin_prime", trts_h_is_miller_rabin_prime(args[1]))

ExternalIsPrime == Call("external_is_prime", external_is_prime(args[1]))

NextPrime == IsMillerRabinPrime \/ TrtsHIsMillerRabinPrime \/ ExternalIsPrime

SpecPrime == InitPrime /\ [][NextPrime]_vars

\* TRTS_Engine::update_koppa() of FIAT_LUX: the stored koppa_mode decides
fiat_lux_update_koppa(e) ==
    IF e.koppa_mode = "KOPPA_RATIO_FEED"
    THEN koppa_ratio_feed(e)
    ELSE IF e.koppa_mode = "KOPPA_ACCUMULATE" THEN koppa_accumulate(e)
    ELSE IF e.koppa_mode = "KOPPA_DUMP"
    THEN [st |-> [e EXCEPT !.koppa = RatOne], threw |-> FALSE]
    ELSE [st |-> e, threw |-> FALSE]

\* the enumerators by value, in both spellings
KappaModeAt == <<"KAPPA_A", "KAPPA_D", "KAPPA_F">>
KoppaModeAt == <<"KOPPA_ACCUMULATE", "KOPPA_DUMP", "KOPPA_RATIO_FEED">>

MaxKoppaNum == 2
MaxKoppaDen == 2
KoppaValues == {RatOf(n, d) : n \in (0 - 1)..MaxKoppaNum, d \in 1..MaxKoppaDen}

\* shadow numerators: a composite, zero and a prime
ShadowValues == {0 - 4, 0, 3}

\* the fields the emission branch reads, at one of the emission microticks,
\* after the head of process_microtick has reset rho
EmissionStates ==
    {[microtick |-> m, kappa_mode_default |-> KappaModeAt[k], koppa_mode |-> KoppaModeAt[k],
      upsilon |-> u, beta |-> b, koppa |-> kp, rho |-> 0,
      upsilon_num_unreduced |-> BigOf(s), beta_num_unreduced |-> BigZero] :
        m \in {1, 4, 7, 10}, k \in 1..3, u \in KoppaValues, b \in KoppaValues,
        kp \in KoppaValues, s \in ShadowValues}

InitKoppa ==
    /\ args \in {<<e>> : e \in EmissionStates}
    /\ ret = <<>>
    /\ last_call = "start"
    /\ NoEngineRun

\* update_koppa(rho) with rho > 0
UpdateKoppa == Call("update_koppa", update_koppa(args[1], 1))

FiatLuxUpdateKoppa == Call("FIAT_LUX update_koppa", fiat_lux_update_koppa(args[1]))

\* the emission branch of process_microtick: prime trigger, then update_koppa
EmissionBranch == Call("process_microtick emission", emission_update(emission_check(args[1])))

\* a HighPrecisionInt of up to three limbs as a machine integer
IntOf(b) == IF b.neg THEN 0 - ShortVal(b.mag) ELSE ShortVal(b.mag)

\* TRTS_Engine::is_prime_trigger() of trts.h: the live numerator or denominator
trts_h_is_prime_trigger(e) ==
    \/ trts_h_is_miller_rabin_prime(IntOf(e.upsilon.num))
    \/ trts_h_is_miller_rabin_prime(IntOf(e.upsilon.den))

TrtsHIsPrimeTrigger == Call("trts.h is_prime_trigger", trts_h_is_prime_trigger(args[1]))

\* TRTS_Engine::update_koppa(trigger) of TRTS_Engine.cpp~: the configured
\* koppa_mode decides, at every emission microtick
shadow_update_koppa(e) ==
    IF e.koppa_mode = "KOPPA_RATIO_FEED" THEN koppa_ratio_feed(e)
    ELSE koppa_accumulate(e)

ShadowUpdateKoppa == Call("TRTS_Engine.cpp~ update_koppa", shadow_update_koppa(args[1]))

NextKoppa ==
    \/ UpdateKoppa
    \/ FiatLuxUpdateKoppa
    \/ EmissionBranch
    \/ TrtsHIsPrimeTrigger
    \/ ShadowUpdateKoppa

SpecKoppa == InitKoppa /\ [][NextKoppa]_vars

\* two engines constructed with the same policies, called through the public
\* methods; log is the sequence of calls made on the instance that is ahead,
\* run[i] how many of them instance i has made
MaxPairCalls == 2

PairSeeds == {<<DefaultUpsilonSeed, DefaultBetaSeed>>, <<RatOf(1, 1), RatOf(-1, 2)>>}

PairCalls ==
    {<<"initialize_state", s[1], s[2]>> : s \in PairSeeds}
        \cup {<<"process_microtick">>, <<"execute_tick", 11>>}

\* what a call leaves behind: the object, and whether it threw
Completed(r) == [st |-> r.st, threw |-> r.threw]

\* a call that reads the microtick from a counter shared by all instances
call_on_shared_microtick(e, c) ==
    IF c[1] = "initialize_state"
    THEN [st |-> initialize_state(e, c[2], c[3]), threw |-> FALSE]
    ELSE IF c[1] = "process_microtick"
    THEN Completed(process_microtick([e EXCEPT !.microtick = advances % 11]))
    ELSE Completed(execute_tick([e EXCEPT !.microtick = advances % 11], c[2]))

\* one call of a public method on the object e
call_on(e, c) ==
    IF c[1] = "initialize_state"
    THEN [st |-> initialize_state(e, c[2], c[3]), threw |-> FALSE]
    ELSE IF c[1] = "process_microtick" THEN Completed(process_microtick(e))
    ELSE Completed(execute_tick(e, c[2]))

InitPair ==
    /\ \E psi \in PsiMode, kappa \in KappaMode, eng \in EngineType :
          engine = <<TRTS_Engine(psi, kappa, eng), TRTS_Engine(psi, kappa, eng)>>
    /\ outcome = <<"ok", "ok">>
    /\ last_call = "construct"
    /\ advances = 0
    /\ since_init = 0
    /\ seeds = <<>>
    /\ log = <<>>
    /\ base = <<>>
    /\ run = <<0, 0>>
    /\ args = <<>>
    /\ ret = <<>>

\* instance i makes the call c
PairCall(i, c) ==
    /\ c[1] = "execute_tick" => Fits(engine[i], c[2])
    /\ \E r \in {call_on(engine[i], c)} :
          /\ Widest(r.st) <= MaxLimbs
          /\ engine' = [engine EXCEPT ![i] = r.st]
          /\ outcome' = [outcome EXCEPT ![i] = Outcome(r.threw)]
    /\ run' = [run EXCEPT ![i] = run[i] + 1]
    /\ advances' = advances + 1
    /\ last_call' = c[1]
    /\ UNCHANGED <<since_init, seeds, base, args, ret>>

\* the instance that is ahead makes a further call
PairLead(i) ==
    /\ run[i] = Len(log)
    /\ Len(log) < MaxPairCalls
    /\ \E c \in PairCalls :
          /\ log' = Append(log, c)
          /\ PairCall(i, c)

\* the instance that is behind makes the next call of the sequence
PairFollow(i) ==
    /\ run[i] < Len(log)
    /\ log' = log
    /\ PairCall(i, log[run[i] + 1])

NextPair == \E i \in 1..2 : PairLead(i) \/ PairFollow(i)

SpecPair == InitPair /\ [][NextPair]_vars

\* the engine of TRTS_Engine.cpp~ behind the shadow-core command line
PsiBehavior == {"PSI_FORCED", "PSI_RHO_TRIGGERED", "PSI_DUAL_RECIPROCAL"}
KoppaMode == {"KOPPA_ACCUMULATE", "KOPPA_DUMP", "KOPPA_RATIO_FEED"}
ShadowEngineType ==
    {"ENGINE_ADDITIVE", "ENGINE_MULTIPLICATIVE", "ENGINE_ROTATIONAL", "ENGINE_QUIET_ADDITIVE"}

\* TRTS_Engine::TRTS_Engine(psi, koppa, engine) of TRTS_Engine.cpp~
shadow_TRTS_Engine(psi, kp, eng) ==
    [rho |-> 0, microtick |-> 0, step |-> 0,
     psi_mode |-> psi, koppa_mode |-> kp, engine_mode |-> eng,
     upsilon |-> RatOne, beta |-> RatOne, koppa |-> [num |-> BigZero, den |-> BigOne]]

\* TRTS_Engine::initialize_state(u_num, b_num) of TRTS_Engine.cpp~
shadow_initialize_state(e, u_num, b_num) ==
    [e EXCEPT !.upsilon = Rational(u_num, BigOf(7)),
              !.beta = Rational(b_num, BigOf(11)),
              !.koppa = RatOne,
              !.step = e.step + 1,
              !.microtick = 0,
              !.rho = 0]

\* one engine of either implementation, constructed
InitSeeded ==
    /\ \/ \E psi \in PsiMode, kappa \in KappaMode, eng \in EngineType :
             engine = TRTS_Engine(psi, kappa, eng)
       \/ \E psi \in PsiBehavior, kp \in KoppaMode, eng \in ShadowEngineType :
             engine = shadow_TRTS_Engine(psi, kp, eng)
    /\ outcome = "ok"
    /\ last_call = "construct"
    /\ advances = 0
    /\ since_init = 0
    /\ seeds = <<>>
    /\ log = <<>>
    /\ base = engine
    /\ run = 0
    /\ args = <<>>
    /\ ret = <<>>

\* engine.initialize_state(upsilon_seed, beta_seed) of the policy-driven main
PolicyInitialize ==
    /\ "kappa_mode_default" \in DOMAIN engine
    /\ \E p \in SeedPairs : Initialize(p[1], p[2])

\* engine.initialize_state(upsilon_seed.numerator(), beta_seed.numerator()) of
\* the shadow-core main
ShadowInitialize ==
    /\ "koppa_mode" \in DOMAIN engine
    /\ last_call = "construct"
    /\ \E p \in SeedPairs :
          /\ engine' = shadow_initialize_state(engine, p[1].num, p[2].num)
          /\ seeds' = <<p[1], p[2]>>
    /\ last_call' = "shadow initialize_state"
    /\ UNCHANGED <<outcome, advances, since_init, log, base, run, args, ret>>

NextSeeded == PolicyInitialize \/ ShadowInitialize

SpecSeeded == InitSeeded /\ [][NextSeeded]_vars

\* apply_propagation_engine on its own, in its three implementations
EngineTypeAt == <<"ENG_A", "ENG_M", "ENG_R", "ENG_Q">>

\* the policy-driven engine initialized with upsilon = u, beta = b
SeededEngine(i, u, b) ==
    initialize_state(TRTS_Engine("PSI_F", "KAPPA_A", EngineTypeAt[i]),
                     RatOf(u[1], u[2]), RatOf(b[1], b[2]))

\* apply_propagation_engine(state) of the C engine with Fibonacci seeds, on
\* int64 fields small enough not to overflow
P2EngineTypeAt == <<"ENGINE_ADDITIVE", "ENGINE_MULTIPLICATIVE", "ENGINE_ROTATIONAL">>

p2_additive_beta(st) ==
    [st EXCEPT !.beta = [num |-> st.beta.num + st.upsilon.num,
                         den |-> st.beta.den + st.upsilon.den]]

p2_multiplicative_beta(st) ==
    [st EXCEPT !.beta = [num |-> st.beta.num * st.upsilon.num,
                         den |-> st.beta.den * st.upsilon.den]]

p2_apply_propagation_engine(st) ==
    IF st.engine_type = "ENGINE_ADDITIVE"
    THEN p2_additive_beta(
            [st EXCEPT !.upsilon = [num |-> st.upsilon.num + st.beta.num,
                                    den |-> st.upsilon.den + st.beta.den]])
    ELSE IF st.engine_type = "ENGINE_MULTIPLICATIVE"
    THEN p2_multiplicative_beta(
            [st EXCEPT !.upsilon = [num |-> st.upsilon.num * st.beta.num,
                                    den |-> st.upsilon.den * st.beta.den]])
    ELSE IF st.engine_type = "ENGINE_ROTATIONAL"
    THEN [st EXCEPT !.upsilon = [num |-> st.beta.den, den |-> st.beta.num],
                    !.beta = [num |-> st.upsilon.den, den |-> st.upsilon.num]]
    ELSE st

\* integer division of cpp_int: the quotient is truncated toward zero
TruncDiv(a, b) ==
    IF (a < 0) = (b < 0) THEN Abs(a) \div Abs(b) ELSE 0 - (Abs(a) \div Abs(b))

\* the placeholder update of upsilon_numerator_unreduced of FIAT_LUX
fiat_lux_unreduced(s, diff) ==
    TruncDiv(s * 11 + TruncDiv(IntOf(diff.num) * 11, IntOf(diff.den)), 11)

\* TRTS_Engine::apply_propagation_engine() of FIAT_LUX, diff being upsilon - beta
fiat_lux_propagation_diff(e, diff) ==
    [e EXCEPT !.upsilon = rat_add(e.upsilon, rat_div(diff, RatEleven)),
              !.beta = rat_sub(e.beta, rat_div(diff, RatEleven)),
              !.upsilon_num_unreduced =
                    BigOf(fiat_lux_unreduced(IntOf(e.upsilon_num_unreduced), diff))]

fiat_lux_apply_propagation_engine(e) ==
    fiat_lux_propagation_diff(e, rat_sub(e.upsilon, e.beta))

InitProp ==
    /\ args \in (1..4) \X Operands \X Operands
    /\ ret = <<>>
    /\ last_call = "start"
    /\ NoEngineRun

ApplyPropagationEngine ==
    Call("apply_propagation_engine",
         apply_propagation_engine(SeededEngine(args[1], args[2], args[3])))

P2ApplyPropagationEngine ==
    /\ args[1] <= 3
    /\ Call("part_002 apply_propagation_engine",
            p2_apply_propagation_engine(
                [engine_type |-> P2EngineTypeAt[args[1]],
                 upsilon |-> [num |-> args[2][1], den |-> args[2][2]],
                 beta |-> [num |-> args[3][1], den |-> args[3][2]]]))

FiatLuxApplyPropagationEngine ==
    Call("FIAT_LUX apply_propagation_engine",
         fiat_lux_apply_propagation_engine(SeededEngine(args[1], args[2], args[3])))

NextProp == ApplyPropagationEngine \/ P2ApplyPropagationEngine \/ FiatLuxApplyPropagationEngine

SpecProp == InitProp /\ [][NextProp]_vars

\* psi_transform on its own, in its four implementations
\* TRTS_Engine::psi_transform() of TRTS_Engine.cpp~, PSI_DUAL_RECIPROCAL branch,
\* after the two assignments: the koppa feed
shadow_psi_feed(e) ==
    IF e.koppa_mode = "KOPPA_RATIO_FEED" /\ ~RatIsZero(e.koppa)
    THEN [e EXCEPT !.upsilon = rat_add(e.upsilon, rat_div(e.koppa, RatOf(7, 1))),
                   !.beta = rat_sub(e.beta, rat_div(e.koppa, RatOf(7, 1)))]
    ELSE e

\* the two assignments from u_inv = 1 / upsilon and b_inv = 1 / beta
shadow_psi_inverted(e, u_inv, b_inv) ==
    shadow_psi_feed([e EXCEPT !.upsilon = Rational(u_inv.num, b_inv.den),
                              !.beta = Rational(b_inv.num, u_inv.den)])

\* PSI_DUAL_RECIPROCAL branch; 1 / x throws bad_rational when x is zero
shadow_psi_dual(e) ==
    IF RatIsZero(e.upsilon) \/ RatIsZero(e.beta) THEN [st |-> e, threw |-> TRUE]
    ELSE [st |-> shadow_psi_inverted(e, rat_div(RatOne, e.upsilon), rat_div(RatOne, e.beta)),
          threw |-> FALSE]

\* the else branch: Rational(beta.denominator(), upsilon.denominator()) and
\* Rational(upsilon.numerator(), beta.denominator())
shadow_psi_c_style(e) ==
    [st |-> [e EXCEPT !.upsilon = Rational(e.beta.den, e.upsilon.den),
                      !.beta = Rational(e.upsilon.num, e.beta.den)],
     threw |-> FALSE]

\* TRTS_Engine::psi_transform() of TRTS_Engine.cpp~
shadow_psi_transform(e) ==
    IF e.psi_mode = "PSI_DUAL_RECIPROCAL" THEN shadow_psi_dual(e) ELSE shadow_psi_c_style(e)

\* TRTS_Engine::psi_transform() of trts.h: the else branch is empty
trts_h_psi_transform(e) ==
    IF e.psi_mode = "PSI_DUAL_RECIPROCAL" THEN shadow_psi_dual(e)
    ELSE [st |-> e, threw |-> FALSE]

\* psi_transform_correct(upsilon, beta) of the C engine with Fibonacci seeds, on
\* int64 fields small enough not to overflow
p2_psi_checked(st, new_upsilon, new_beta) ==
    IF (st.upsilon.num * st.beta.num) * (new_upsilon.num * new_beta.num)
          = (st.upsilon.den * st.beta.den) * (new_upsilon.den * new_beta.den)
    THEN [st EXCEPT !.upsilon = new_upsilon, !.beta = new_beta]
    ELSE st

psi_transform_correct(st) ==
    p2_psi_checked(st, [num |-> st.beta.den, den |-> st.upsilon.num],
                       [num |-> st.upsilon.den, den |-> st.beta.num])

\* numerator and denominator of upsilon, beta and koppa
PsiOperands == {<<n, d>> : n \in (0 - 1)..MaxKoppaNum, d \in 1..MaxKoppaDen}

InitPsi ==
    /\ args \in PsiOperands \X PsiOperands \X PsiOperands \X PsiBehavior \X KoppaMode
    /\ ret = <<>>
    /\ last_call = "start"
    /\ NoEngineRun

\* the policy-driven engine with upsilon, beta and koppa as given
PsiEngine(a) ==
    [initialize_state(TRTS_Engine("PSI_D", "KAPPA_A", "ENG_Q"),
                      RatOf(a[1][1], a[1][2]), RatOf(a[2][1], a[2][2]))
        EXCEPT !.koppa = RatOf(a[3][1], a[3][2])]

\* the engine of TRTS_Engine.cpp~ and trts.h with upsilon, beta and koppa as given
ShadowPsiEngine(a) ==
    [shadow_TRTS_Engine(a[4], a[5], "ENGINE_QUIET_ADDITIVE")
        EXCEPT !.upsilon = RatOf(a[1][1], a[1][2]),
               !.beta = RatOf(a[2][1], a[2][2]),
               !.koppa = RatOf(a[3][1], a[3][2])]

PsiTransform == Call("psi_transform", psi_transform(PsiEngine(args)))

ShadowPsiTransform == Call("TRTS_Engine.cpp~ psi_transform", shadow_psi_transform(ShadowPsiEngine(args)))

TrtsHPsiTransform == Call("trts.h psi_transform", trts_h_psi_transform(ShadowPsiEngine(args)))

PsiTransformCorrect ==
    Call("psi_transform_correct",
         psi_transform_correct([upsilon |-> [num |-> args[1][1], den |-> args[1][2]],
                                beta |-> [num |-> args[2][1], den |-> args[2][2]]]))

NextPsi == PsiTransform \/ ShadowPsiTransform \/ TrtsHPsiTransform \/ PsiTransformCorrect

SpecPsi == InitPsi /\ [][NextPsi]_vars

(***************************************************************************)
(* The shadow-core engine (TRTS_Engine.cpp~ and trts.h) as trts_cli.cpp    *)
(* and the main of trts.h run it: constructed, initialize_state, then      *)
(* execute_step() per macro-tick.  args is <<implementation, psi, koppa,   *)
(* engine, u_seed, b_seed>>; base is the engine as the first execute_step  *)
(* of a run left it; run counts the execute_step calls, since_init the     *)
(* single process_microtick calls, advances all process_microtick calls.   *)
(***************************************************************************)
ShadowImpl == {"TRTS_Engine.cpp~", "trts.h"}

MaxShadowSteps == 3
MaxShadowSingles == 12
MaxShadowSeed == 14

\* apply_propagation_engine() of TRTS_Engine.cpp~ and trts.h
shadow_apply_propagation_engine(e) ==
    IF e.engine_mode = "ENGINE_QUIET_ADDITIVE"
    THEN [e EXCEPT !.upsilon = rat_add(e.upsilon, rat_div(rat_sub(e.upsilon, e.beta), RatEleven)),
                   !.beta = rat_sub(e.beta, rat_div(rat_sub(e.upsilon, e.beta), RatEleven))]
    ELSE [e EXCEPT !.upsilon = rat_add(e.upsilon, rat_sub(e.upsilon, e.beta)),
                   !.beta = rat_sub(e.beta, rat_sub(e.upsilon, e.beta))]

\* update_koppa(trigger) of trts.h: KOPPA_DUMP falls to the empty default
trts_h_update_koppa(e) ==
    IF e.koppa_mode = "KOPPA_ACCUMULATE" THEN koppa_accumulate(e)
    ELSE IF e.koppa_mode = "KOPPA_RATIO_FEED" THEN koppa_ratio_feed(e)
    ELSE [st |-> e, threw |-> FALSE]

shadow_update_koppa_of(impl, e) ==
    IF impl = "trts.h" THEN trts_h_update_koppa(e) ELSE shadow_update_koppa(e)

shadow_psi_transform_of(impl, e) ==
    IF impl = "trts.h" THEN trts_h_psi_transform(e) ELSE shadow_psi_transform(e)

\* should_transform of process_microtick, at a transformation point
shadow_should_transform(impl, e) ==
    \/ impl # "trts.h" /\ e.psi_mode = "PSI_FORCED" /\ e.microtick = 11
    \/ impl # "trts.h" /\ e.psi_mode = "PSI_RHO_TRIGGERED" /\ e.rho > 0
    \/ e.psi_mode = "PSI_DUAL_RECIPROCAL" /\ (e.microtick = 11 \/ e.rho > 0)

\* a head that takes the microtick back to 1 after 11
shadow_begin_microtick_wraps(e) == [e EXCEPT !.microtick = (e.microtick % 11) + 1, !.rho = 0]

\* microtick++; rho = 0;
shadow_begin_microtick(e) == [e EXCEPT !.microtick = e.microtick + 1, !.rho = 0]

\* if (is_prime_trigger()) { rho = 1; }
shadow_emission_check(e) ==
    IF is_emission_point(e.microtick) /\ trts_h_is_prime_trigger(e)
    THEN [e EXCEPT !.rho = 1] ELSE e

\* if (rho > 0) { update_koppa(rho); }
shadow_emission_update(impl, e) ==
    IF is_emission_point(e.microtick) /\ e.rho > 0
    THEN shadow_update_koppa_of(impl, e) ELSE [st |-> e, threw |-> FALSE]

shadow_propagation(e) ==
    IF is_propagation_point(e.microtick) THEN shadow_apply_propagation_engine(e) ELSE e

shadow_transformation(impl, e) ==
    IF is_transformation_point(e.microtick) /\ shadow_should_transform(impl, e)
    THEN transformed(shadow_psi_transform_of(impl, e))
    ELSE [st |-> e, threw |-> FALSE, psi |-> FALSE]

shadow_after_emission(impl, k) ==
    IF k.threw THEN [st |-> k.st, threw |-> TRUE, psi |-> FALSE]
    ELSE shadow_transformation(impl, shadow_propagation(k.st))

\* TRTS_Engine::process_microtick() of TRTS_Engine.cpp~ and trts.h
shadow_process_microtick(impl, e) ==
    shadow_after_emission(impl,
        shadow_emission_update(impl, shadow_emission_check(shadow_begin_microtick(e))))

RECURSIVE shadow_execute_step_loop(_, _, _, _, _)
\* the loop of execute_step from iteration i on, left at the first exception
shadow_execute_step_body(impl, r, i, total, lg) ==
    IF r.threw THEN [st |-> r.st, threw |-> TRUE, log |-> Append(lg, log_entry(r))]
    ELSE shadow_execute_step_loop(impl, r.st, i + 1, total, Append(lg, log_entry(r)))

shadow_execute_step_loop(impl, e, i, total, lg) ==
    IF i >= total THEN [st |-> e, threw |-> FALSE, log |-> lg]
    ELSE shadow_execute_step_body(impl, shadow_process_microtick(impl, e), i, total, lg)

\* TRTS_Engine::execute_step(total_microticks = 11)
shadow_execute_step(impl, e, total_microticks) ==
    shadow_execute_step_loop(impl, e, 0, total_microticks, <<>>)

\* the prime test of the next emission reads numbers that IntOf can hand to
\* it as machine integers
ShadowFits(e) ==
    is_emission_point(e.microtick + 1) =>
        (IsShort(e.upsilon.num.mag) /\ IsShort(e.upsilon.den.mag))

RECURSIVE ShadowFitsFor(_, _, _)
\* ShadowFits before each of the next n calls
ShadowFitsFor(impl, e, n) ==
    IF n = 0 THEN TRUE
    ELSE IF ~ShadowFits(e) THEN FALSE
    ELSE IF shadow_process_microtick(impl, e).threw THEN TRUE
    ELSE ShadowFitsFor(impl, shadow_process_microtick(impl, e).st, n - 1)

\* seed numerators: upsilon starts at -3/7, 0, 1 or 2, beta at 0, 7/11 or 14/11
ShadowUpsilonSeeds == {0 - 3, 0, 7, MaxShadowSeed}
ShadowBetaSeeds == {0, 7, MaxShadowSeed}

ShadowRuns ==
    ShadowImpl \X PsiBehavior \X KoppaMode \X ShadowEngineType
        \X ShadowUpsilonSeeds \X ShadowBetaSeeds

\* TRTS_Engine engine(psi, koppa, engine); engine.initialize_state(u_seed, b_seed);
InitShadow ==
    /\ args \in ShadowRuns
    /\ engine = shadow_initialize_state(shadow_TRTS_Engine(args[2], args[3], args[4]),
                                        BigOf(args[5]), BigOf(args[6]))
    /\ outcome = "ok"
    /\ last_call = "initialize_state"
    /\ advances = 0
    /\ since_init = 0
    /\ seeds = <<>>
    /\ log = <<>>
    /\ base = <<>>
    /\ run = 0
    /\ ret = <<>>

\* engine.process_microtick()
ShadowProcessMicrotick ==
    /\ outcome = "ok"
    /\ since_init < MaxShadowSingles
    /\ ShadowFits(engine)
    /\ \E r \in {shadow_process_microtick(args[1], engine)} :
          /\ engine' = r.st
          /\ outcome' = Outcome(r.threw)
          /\ log' = <<log_entry(r)>>
    /\ last_call' = "process_microtick"
    /\ advances' = advances + 1
    /\ since_init' = since_init + 1
    /\ UNCHANGED <<seeds, base, run, args, ret>>

\* engine.execute_step()
ShadowExecuteStep ==
    /\ outcome = "ok"
    /\ run < MaxShadowSteps
    /\ ShadowFitsFor(args[1], engine, 11)
    /\ \E r \in {shadow_execute_step(args[1], engine, 11)} :
          /\ engine' = r.st
          /\ outcome' = Outcome(r.threw)
          /\ log' = r.log
          /\ base' = IF advances = 0 THEN r.st ELSE base
          /\ advances' = advances + Len(r.log)
    /\ last_call' = "execute_step"
    /\ run' = run + 1
    /\ UNCHANGED <<since_init, seeds, args, ret>>

NextShadow == ShadowProcessMicrotick \/ ShadowExecuteStep

SpecShadow == InitShadow /\ [][NextShadow]_vars

(***************************************************************************)
(* The fixed-width C engines with Fibonacci seeds: the engine of part_002  *)
(* (process_microtick_complete) and the SM-model engine of trtssm.c.  The  *)
(* fields of a Rational are int64_t, held exactly; of records that an      *)
(* operation of the current call overflowed.                               *)
(***************************************************************************)
P2PsiBehavior == {"PSI_FORCED", "PSI_RHO", "PSI_MU", "PSI_RHO_MSTEP"}
P2KoppaMode == {"KOPPA_DUMP", "KOPPA_ACCUMULATE", "KOPPA_POP"}
P2EngineType == {"ENGINE_ADDITIVE", "ENGINE_MULTIPLICATIVE", "ENGINE_ROTATIONAL"}

FIB_PRIMES == <<2, 3, 5, 13, 89, 233, 1597>>

\* (Rational){n, d} of two machine integers
P2Rational(n, d) == [num |-> BigOf(n), den |-> BigOf(d)]

\* the trial divisors 3, 5, 7, ... are run up to MaxTrialRoot
MaxTrialRoot == 1000

\* for (i = 3; i * i <= n; i += 2) if (n % i == 0) return false; return true;
trial_division(n) ==
    \A k \in 1..((MaxTrialRoot - 1) \div 2) :
        (2 * k + 1) * (2 * k + 1) > n \/ n % (2 * k + 1) # 0

\* external_is_prime(n) on an int64_t: computed for n below MaxTrialRoot
\* squared; above it n < 2 and n % 2 == 0 are decided and the trial division
\* is not run, guess standing for its answer
external_is_prime_64(x, guess) ==
    IF x.neg \/ x.mag = <<>> \/ x.mag = <<1>> THEN FALSE
    ELSE IF x.mag = <<2>> THEN TRUE
    ELSE IF x.mag[1] % 2 = 0 THEN FALSE
    ELSE IF IsShort(x.mag) /\ ShortVal(x.mag) < MaxTrialRoot * MaxTrialRoot
    THEN trial_division(ShortVal(x.mag))
    ELSE guess

\* koppa.num = n, n the result of an int64_t operation
p2_koppa_num(st, n) ==
    [st EXCEPT !.koppa = [num |-> n.v, den |-> st.koppa.den], !.of = st.of \/ n.of]

\* x / 2 on int64_t, truncated toward zero
p2_half(x) == BigMk(x.neg, MagDivMod(x.mag, <<2>>).q)

\* koppa.num = (koppa.num + emission_value) / 2
p2_koppa_pop(st, sum) ==
    [st EXCEPT !.koppa = [num |-> p2_half(sum.v), den |-> st.koppa.den],
               !.of = st.of \/ sum.of]

\* if (state->koppa.den == 0) state->koppa.den = 1;
p2_koppa_den(st) ==
    IF BigIsZero(st.koppa.den)
    THEN [st EXCEPT !.koppa = [num |-> st.koppa.num, den |-> BigOne]] ELSE st

\* switch (state->koppa_mode) of update_koppa
p2_koppa_switch(st, emission_value) ==
    IF st.koppa_mode = "KOPPA_DUMP" /\ st.microtick = 1
    THEN [st EXCEPT !.koppa = P2Rational(emission_value, 1)]
    ELSE IF st.koppa_mode = "KOPPA_POP" /\ st.step % 2 # 0
    THEN p2_koppa_pop(st, add64(st.koppa.num, BigOf(emission_value)))
    ELSE IF st.koppa_mode \in P2KoppaMode
    THEN p2_koppa_num(st, add64(st.koppa.num, BigOf(emission_value)))
    ELSE st

\* update_koppa(state, emission_value) of part_002
p2_update_koppa(st, emission_value) == p2_koppa_den(p2_koppa_switch(st, emission_value))

\* upsilon and beta stored from two results
p2_store(st, u, b) ==
    [st EXCEPT !.upsilon = [num |-> u.num, den |-> u.den],
               !.beta = [num |-> b.num, den |-> b.den],
               !.of = st.of \/ u.of \/ b.of]

\* beta = beta + upsilon on the fields, upsilon being the updated one
p2_additive_64(st, u) ==
    p2_store(st, u, RawRational(add64(st.beta.num, u.num), add64(st.beta.den, u.den), FALSE))

p2_multiplicative_64(st, u) ==
    p2_store(st, u, RawRational(mul64(st.beta.num, u.num), mul64(st.beta.den, u.den), FALSE))

\* apply_propagation_engine(state) of part_002 on int64_t fields
p2_apply_propagation_engine_64(st) ==
    IF st.engine_type = "ENGINE_ADDITIVE"
    THEN p2_additive_64(st, RawRational(add64(st.upsilon.num, st.beta.num),
                                        add64(st.upsilon.den, st.beta.den), FALSE))
    ELSE IF st.engine_type = "ENGINE_MULTIPLICATIVE"
    THEN p2_multiplicative_64(st, RawRational(mul64(st.upsilon.num, st.beta.num),
                                              mul64(st.upsilon.den, st.beta.den), FALSE))
    ELSE IF st.engine_type = "ENGINE_ROTATIONAL"
    THEN [st EXCEPT !.upsilon = [num |-> st.beta.den, den |-> st.beta.num],
                    !.beta = [num |-> st.upsilon.den, den |-> st.upsilon.num]]
    ELSE st

\* if (left_product_num * right_product_num == left_product_den * right_product_den)
p2_psi_decide(st, l, r, of) ==
    IF l.v = r.v
    THEN [st EXCEPT !.upsilon = [num |-> st.beta.den, den |-> st.upsilon.num],
                    !.beta = [num |-> st.upsilon.den, den |-> st.beta.num],
                    !.of = st.of \/ of \/ l.of \/ r.of]
    ELSE [st EXCEPT !.of = st.of \/ of \/ l.of \/ r.of]

\* the four products of psi_transform_correct
p2_psi_products(st, ln, ld, rn, rd) ==
    p2_psi_decide(st, mul64(ln.v, rn.v), mul64(ld.v, rd.v),
                  ln.of \/ ld.of \/ rn.of \/ rd.of)

\* psi_transform_correct(upsilon, beta) of part_002 on int64_t fields
psi_transform_correct_64(st) ==
    p2_psi_products(st, mul64(st.upsilon.num, st.beta.num),
                        mul64(st.upsilon.den, st.beta.den),
                        mul64(st.beta.den, st.upsilon.den),
                        mul64(st.upsilon.num, st.beta.num))

\* index into emission_count of current_role
p2_role_index(st) ==
    IF st.current_role = "E" THEN 1 ELSE IF st.current_role = "M" THEN 2 ELSE 3

\* state->emission_count[...]++
p2_count(st) ==
    [st EXCEPT !.emission_count[p2_role_index(st)] = st.emission_count[p2_role_index(st)] + 1]

\* a prime check that clears rho when it finds no prime
p2_prime_emission_clears(st, prime_num, prime_den) ==
    IF prime_num \/ prime_den
    THEN p2_count([st EXCEPT !.rho = IF prime_num /\ prime_den THEN 3
                                     ELSE IF prime_num THEN 1 ELSE 2])
    ELSE [st EXCEPT !.rho = 0]

\* if (prime_num || prime_den) { rho = ...; emission_count[...]++; }
p2_prime_emission(st, prime_num, prime_den) ==
    IF prime_num \/ prime_den
    THEN p2_count([st EXCEPT !.rho = IF prime_num /\ prime_den THEN 3
                                     ELSE IF prime_num THEN 1 ELSE 2])
    ELSE st

\* a forced emission at every epsilon microtick
p2_forced_emission_everywhere(st) ==
    IF st.rho = 0 THEN p2_count([st EXCEPT !.rho = 4]) ELSE st

\* if (state->microtick == 10 && state->rho == 0) { rho = 4; emission_count[...]++; }
p2_forced_emission(st) ==
    IF st.microtick = 10 /\ st.rho = 0 THEN p2_count([st EXCEPT !.rho = 4]) ELSE st

\* if (state->rho > 0) update_koppa(state, state->rho);
p2_emission_koppa(st) == IF st.rho > 0 THEN p2_update_koppa(st, st.rho) ELSE st

\* the EPSILON block of process_microtick_complete
p2_epsilon(st, guess_num, guess_den) ==
    p2_emission_koppa(p2_forced_emission(p2_prime_emission(st,
        external_is_prime_64(st.upsilon.num, guess_num),
        external_is_prime_64(st.upsilon.den, guess_den))))

\* switch (state->psi_behavior)
p2_should_transform(st) ==
    \/ st.psi_behavior = "PSI_FORCED" /\ st.microtick = 11
    \/ st.psi_behavior = "PSI_RHO" /\ st.rho > 0
    \/ st.psi_behavior = "PSI_MU"
    \/ st.psi_behavior = "PSI_RHO_MSTEP" /\ (st.rho > 0 \/ st.microtick = 5 \/ st.microtick = 8)

\* the MU block
p2_mu(st) == IF p2_should_transform(st) THEN psi_transform_correct_64(st) ELSE st

\* the strict E-M-R mapping
p2_role(m) == IF m <= 4 THEN "E" ELSE IF m <= 8 THEN "M" ELSE "R"

\* the three blocks, one of which the microtick selects
p2_blocks(st, guess_num, guess_den) ==
    IF IsEpsilon(st.microtick) THEN p2_epsilon(st, guess_num, guess_den)
    ELSE IF IsPhi(st.microtick) THEN p2_apply_propagation_engine_64(st)
    ELSE IF IsMu(st.microtick) THEN p2_mu(st)
    ELSE st

\* process_microtick_complete(state) of part_002
process_microtick_complete(st, guess_num, guess_den) ==
    p2_blocks([st EXCEPT !.current_role = p2_role(st.microtick), !.of = FALSE],
              guess_num, guess_den)

\* initialize_state(state, step) of part_002
p2_initialize_state(st, step) ==
    [st EXCEPT !.upsilon = P2Rational(FIB_PRIMES[(step % 7) + 1], FIB_PRIMES[((step + 1) % 7) + 1]),
               !.beta = P2Rational(FIB_PRIMES[((step + 2) % 7) + 1], FIB_PRIMES[((step + 3) % 7) + 1]),
               !.koppa = IF st.koppa_mode = "KOPPA_DUMP" \/ step = 0
                         THEN P2Rational(1, 1) ELSE st.koppa,
               !.rho = 0,
               !.step = step]

\* TRTS_State state = {0} with the three policies assigned
p2_zero_state(psi, kp, eng) ==
    [upsilon |-> P2Rational(0, 0), beta |-> P2Rational(0, 0), koppa |-> P2Rational(0, 0),
     rho |-> 0, microtick |-> 0, step |-> 0, current_role |-> "",
     emission_count |-> <<0, 0, 0>>,
     psi_behavior |-> psi, koppa_mode |-> kp, engine_type |-> eng, of |-> FALSE]

\* the new fields psi_transform of trtssm.c computes
sm_psi_fields(st, u2, d2) ==
    [un |-> add64(u2.v, st.beta.den), ud |-> mul64(st.upsilon.den, BigOf(2)),
     bn |-> mul64(st.beta.num, BigOf(2)), bd |-> add64(d2.v, st.upsilon.num),
     of |-> u2.of \/ d2.of]

\* a psi_transform that stores the new fields without the check
sm_psi_decide_unchecked(st, f, l, r, of) ==
    [st EXCEPT !.upsilon = [num |-> f.un.v, den |-> f.ud.v],
               !.beta = [num |-> f.bn.v, den |-> f.bd.v],
               !.of = st.of \/ of \/ l.of \/ r.of]

\* if (orig_product_num * new_product_den == new_product_num * orig_product_den)
sm_psi_decide(st, f, l, r, of) ==
    IF l.v = r.v
    THEN [st EXCEPT !.upsilon = [num |-> f.un.v, den |-> f.ud.v],
                    !.beta = [num |-> f.bn.v, den |-> f.bd.v],
                    !.of = st.of \/ of \/ l.of \/ r.of]
    ELSE [st EXCEPT !.of = st.of \/ of \/ l.of \/ r.of]

\* the four products of psi_transform of trtssm.c
sm_psi_products(st, f, opn, opd, npn, npd) ==
    sm_psi_decide(st, f, mul64(opn.v, npd.v), mul64(npn.v, opd.v),
                  f.of \/ f.un.of \/ f.ud.of \/ f.bn.of \/ f.bd.of
                       \/ opn.of \/ opd.of \/ npn.of \/ npd.of)

sm_psi_checked(st, f) ==
    sm_psi_products(st, f, mul64(st.upsilon.num, st.beta.num),
                           mul64(st.upsilon.den, st.beta.den),
                           mul64(f.un.v, f.bn.v), mul64(f.ud.v, f.bd.v))

\* psi_transform(upsilon, beta) of trtssm.c
sm_psi_transform(st) ==
    sm_psi_checked(st, sm_psi_fields(st, mul64(st.upsilon.num, BigOf(2)),
                                         mul64(st.beta.den, BigOf(2))))

\* the rho activation of process_microtick of trtssm.c
sm_prime_emission(st, prime_num, prime_den) ==
    IF prime_num \/ prime_den
    THEN [st EXCEPT !.rho = IF prime_num /\ prime_den THEN 3
                            ELSE IF prime_num THEN 1 ELSE 2]
    ELSE st

\* if (state->microtick == 10 && state->rho == 0) state->rho = 4;
sm_forced_emission(st) ==
    IF st.microtick = 10 /\ st.rho = 0 THEN [st EXCEPT !.rho = 4] ELSE st

\* the block of the epsilon microticks
sm_epsilon(st, guess_num, guess_den) ==
    IF IsEpsilon(st.microtick)
    THEN sm_forced_emission(sm_prime_emission(st,
            external_is_prime_64(st.upsilon.num, guess_num),
            external_is_prime_64(st.upsilon.den, guess_den)))
    ELSE st

\* koppa.num = koppa.num * 2 + rho; koppa.den = koppa.den * 2
sm_koppa_ledger(st, n2, d2) ==
    [st EXCEPT !.koppa = [num |-> add64(n2.v, BigOf(st.rho)).v, den |-> d2.v],
               !.of = st.of \/ n2.of \/ d2.of \/ add64(n2.v, BigOf(st.rho)).of]

\* the block of microtick 11
sm_mass_gap(st) ==
    sm_koppa_ledger(st, mul64(st.koppa.num, BigOf(2)), mul64(st.koppa.den, BigOf(2)))

sm_eleven(st) == IF st.microtick = 11 THEN sm_mass_gap(sm_psi_transform(st)) ELSE st

\* if (is_mu || is_phi) state->koppa.num += state->rho;
sm_koppa_tracking(st) ==
    IF IsMu(st.microtick) \/ IsPhi(st.microtick)
    THEN p2_koppa_num(st, add64(st.koppa.num, BigOf(st.rho))) ELSE st

\* process_microtick(state) of trtssm.c
sm_process_microtick(st, guess_num, guess_den) ==
    sm_koppa_tracking(sm_eleven(sm_epsilon(
        [st EXCEPT !.current_role = p2_role(st.microtick), !.of = FALSE],
        guess_num, guess_den)))

\* initialize_fibonacci_prime_seeds(state) of trtssm.c
initialize_fibonacci_prime_seeds(st) ==
    [st EXCEPT !.upsilon = P2Rational(FIB_PRIMES[(st.step % 7) + 1],
                                      FIB_PRIMES[((st.step + 1) % 7) + 1]),
               !.beta = P2Rational(FIB_PRIMES[((st.step + 2) % 7) + 1],
                                   FIB_PRIMES[((st.step + 3) % 7) + 1]),
               !.koppa = P2Rational(1, 1),
               !.rho = 0]

\* TRTS_State state = {0} of trts_propagation_loop
sm_zero_state ==
    [upsilon |-> P2Rational(0, 0), beta |-> P2Rational(0, 0), koppa |-> P2Rational(0, 0),
     rho |-> 0, microtick |-> 0, step |-> 0, current_role |-> "", of |-> FALSE]

(***************************************************************************)
(* One microtick of the C engines called on its own.  rho is 0 to 3 up to  *)
(* microtick 10 and 0 to 4 at microtick 11: both drivers reset rho before  *)
(* microtick 1 and 4 is assigned at microtick 10 alone.                    *)
(***************************************************************************)
ForcedNums == {2, 9}
ForcedDens == {3, 4}
ForcedKoppas == {1, 6}

P2States ==
    {[p2_zero_state(psi, kp, eng) EXCEPT
          !.upsilon = P2Rational(un, ud), !.beta = P2Rational(5, 13),
          !.koppa = P2Rational(k, 1), !.rho = r, !.microtick = m, !.step = s] :
        psi \in P2PsiBehavior, kp \in P2KoppaMode, eng \in P2EngineType,
        un \in ForcedNums, ud \in ForcedDens, k \in ForcedKoppas,
        r \in 0..4, m \in 1..11, s \in 0..1}

SmStates ==
    {[sm_zero_state EXCEPT
          !.upsilon = P2Rational(un, ud), !.beta = P2Rational(5, 13),
          !.koppa = P2Rational(k, 1), !.rho = r, !.microtick = m, !.step = s] :
        un \in ForcedNums, ud \in ForcedDens, k \in ForcedKoppas,
        r \in 0..4, m \in 1..11, s \in 0..1}

InitForced ==
    /\ args \in {<<st>> : st \in {x \in P2States \cup SmStates :
                                    x.rho = 4 => x.microtick = 11}}
    /\ ret = <<>>
    /\ last_call = "start"
    /\ NoEngineRun

ProcessMicrotickComplete ==
    /\ args[1] \in P2States
    /\ Call("process_microtick_complete", process_microtick_complete(args[1], FALSE, FALSE))

SmProcessMicrotick ==
    /\ args[1] \in SmStates
    /\ Call("trtssm.c process_microtick", sm_process_microtick(args[1], FALSE, FALSE))

NextForced ==
    \/ ProcessMicrotickComplete
    \/ SmProcessMicrotick

SpecForced == InitForced /\ [][NextForced]_vars

(***************************************************************************)
(* The drivers of the C engines: trts_propagation_loop of trtssm.c and     *)
(* run_comprehensive_test_suite over the engine of part_002.  args is the  *)
(* driver and its configuration, run the tick, engine.microtick the loop   *)
(* variable of the inner loop (12 once the step is over), base the seeds   *)
(* of the step, ret the emission counters of the test suite.  A signed     *)
(* overflow in a microtick either wraps or traps.                          *)
(***************************************************************************)
MaxFibTicks == 7

\* TestConfig configs[] of run_comprehensive_test_suite
TestConfigs ==
    {<<"PSI_FORCED", "KOPPA_ACCUMULATE", "ENGINE_ADDITIVE">>,
     <<"PSI_FORCED", "KOPPA_ACCUMULATE", "ENGINE_MULTIPLICATIVE">>,
     <<"PSI_FORCED", "KOPPA_ACCUMULATE", "ENGINE_ROTATIONAL">>,
     <<"PSI_RHO", "KOPPA_DUMP", "ENGINE_ADDITIVE">>,
     <<"PSI_MU", "KOPPA_ACCUMULATE", "ENGINE_ADDITIVE">>,
     <<"PSI_RHO_MSTEP", "KOPPA_POP", "ENGINE_ADDITIVE">>}

FibDrivers ==
    {<<"trts_propagation_loop">>}
        \cup {<<"run_comprehensive_test_suite", c[1], c[2], c[3]>> : c \in TestConfigs}

\* the state at the head of the inner loop of the first tick
fib_first_tick(driver) ==
    IF driver[1] = "trts_propagation_loop"
    THEN [initialize_fibonacci_prime_seeds(sm_zero_state) EXCEPT !.microtick = 1]
    ELSE [p2_initialize_state(p2_zero_state(driver[2], driver[3], driver[4]), 0)
             EXCEPT !.microtick = 1]

\* the seeds a step starts from
fib_seeds(st) == [upsilon |-> st.upsilon, beta |-> st.beta]

InitFib ==
    /\ args \in FibDrivers
    /\ engine = fib_first_tick(args)
    /\ base = fib_seeds(engine)
    /\ ret = [prime_emissions |-> 0, forced_emissions |-> 0]
    /\ run = 0
    /\ outcome = "ok"
    /\ last_call = "start"
    /\ advances = 0
    /\ since_init = 0
    /\ seeds = <<>>
    /\ log = <<>>

\* the call in the body of the inner loop
fib_microtick(driver, st, guess_num, guess_den) ==
    IF driver[1] = "trts_propagation_loop"
    THEN sm_process_microtick(st, guess_num, guess_den)
    ELSE process_microtick_complete(st, guess_num, guess_den)

FibRunning == outcome = "ok" /\ engine.microtick <= 11

\* the answers external_is_prime may give on x
fib_guesses(x) ==
    {guess \in BOOLEAN : guess = external_is_prime_64(x, guess)}

\* one iteration of the inner loop; a signed overflow in it wraps
FibMicrotick ==
    /\ FibRunning
    /\ \E guess_num \in fib_guesses(engine.upsilon.num),
          guess_den \in fib_guesses(engine.upsilon.den) :
         \E st \in {fib_microtick(args, engine, guess_num, guess_den)} :
            engine' = [st EXCEPT !.microtick = st.microtick + 1]
    /\ last_call' = "process_microtick"
    /\ UNCHANGED <<outcome, advances, since_init, seeds, log, base, run, args, ret>>

\* one iteration of the inner loop; a signed overflow in it traps
FibTrap ==
    /\ FibRunning
    /\ \E guess_num \in fib_guesses(engine.upsilon.num),
          guess_den \in fib_guesses(engine.upsilon.den) :
          fib_microtick(args, engine, guess_num, guess_den).of
    /\ last_call' = "trap"
    /\ outcome' = "signed overflow"
    /\ UNCHANGED <<engine, advances, since_init, seeds, log, base, run, args, ret>>

\* if (state.rho > 0 && state.rho < 4) prime_emissions++;
\* if (state.rho == 4) forced_emissions++;
track_emission_types(st, counters) ==
    [prime_emissions |-> counters.prime_emissions
                           + (IF st.rho > 0 /\ st.rho < 4 THEN 1 ELSE 0),
     forced_emissions |-> counters.forced_emissions + (IF st.rho = 4 THEN 1 ELSE 0)]

\* the head of the next tick of the outer loop
fib_next_tick(driver, st, tick) ==
    IF driver[1] = "trts_propagation_loop"
    THEN [initialize_fibonacci_prime_seeds([st EXCEPT !.rho = 0, !.step = tick])
             EXCEPT !.microtick = 1]
    ELSE [p2_initialize_state(st, tick) EXCEPT !.microtick = 1]

\* the end of a tick of the outer loop and the start of the next
FibNextTick ==
    /\ outcome = "ok"
    /\ engine.microtick = 12
    /\ run + 1 < MaxFibTicks
    /\ run' = run + 1
    /\ ret' = IF args[1] = "trts_propagation_loop" THEN ret
              ELSE track_emission_types(engine, ret)
    /\ engine' = fib_next_tick(args, engine, run + 1)
    /\ base' = fib_seeds(engine')
    /\ last_call' = "initialize"
    /\ UNCHANGED <<outcome, advances, since_init, seeds, log, args>>

NextFib ==
    \/ FibMicrotick
    \/ FibTrap
    \/ FibNextTick

SpecFib == InitFib /\ [][NextFib]_vars

\* psi_transform of trtssm.c called on its own
SmPsiFields == (0 - 2)..2

InitSmPsi ==
    /\ args \in {<<[sm_zero_state EXCEPT !.upsilon = P2Rational(a, b),
                                         !.beta = P2Rational(c, d)]>> :
                    a \in SmPsiFields, b \in SmPsiFields,
                    c \in SmPsiFields, d \in SmPsiFields}
    /\ ret = <<>>
    /\ last_call = "start"
    /\ NoEngineRun

SmPsiTransform == Call("trtssm.c psi_transform", sm_psi_transform(args[1]))

NextSmPsi == SmPsiTransform

SpecSmPsi == InitSmPsi /\ [][NextSmPsi]_vars

C2_StepCountsCycles == engine.step = advances \div 11

C4_InitializeResets ==
    last_call = "initialize_state" =>
        /\ engine.koppa = RatOne
        /\ engine.microtick = 0
        /\ engine.rho = 0

\* C5: eleven process_microtick calls in a row leave the engine in the state
\* one execute_tick(11) leaves it in from the same start; when a call of the
\* row throws, the engine is as execute_tick(11) leaves it on that throw.
C5_MacroEqualsEleven ==
    (last_call = "process_microtick" /\ (run = 11 \/ outcome = "DivideByZero")) =>
        LET r == execute_tick(base, 11)
        IN  r.st = engine /\ Outcome(r.threw) = outcome

C5_Witness ==
    /\ last_call = "process_microtick" /\ run = 11 /\ outcome = "ok"
    /\ base.microtick # 0
    /\ engine.upsilon # base.upsilon


C8_NoPartialMutation ==
    [][(last_call' = "process_microtick" /\ outcome' = "DivideByZero")
        => engine' = engine]_vars

C10_raw(n, d) == [num |-> BigOf(n), den |-> BigOf(d)]
C10_raw_add(a, b) ==
    [num |-> BigAdd(BigMul(a.num, b.den), BigMul(b.num, a.den)), den |-> BigMul(a.den, b.den)]
C10_raw_sub(a, b) ==
    [num |-> BigSub(BigMul(a.num, b.den), BigMul(b.num, a.den)), den |-> BigMul(a.den, b.den)]
C10_raw_div(a, b) == [num |-> BigMul(a.num, b.den), den |-> BigMul(a.den, b.num)]

\* equality of the values of two fractions, reduced or not
C10_SameValue(a, b) == BigMul(a.num, b.den) = BigMul(b.num, a.den)

\* one propagation with delta = (upsilon - beta) / 11 taken from the pair
C10_QuietStep(p) ==
    LET delta == C10_raw_div(C10_raw_sub(p[1], p[2]), C10_raw(11, 1))
    IN  <<C10_raw_add(p[1], delta), C10_raw_sub(p[2], delta)>>

\* one propagation with a given delta
C10_FixedStep(p, delta) == <<C10_raw_add(p[1], delta), C10_raw_sub(p[2], delta)>>

\* the psi-transforms with koppa 1/1 (no emission has touched it):
\* dual-reciprocal (koppa/beta, upsilon/koppa) and
\* reciprocal-swap (a/b, c/d) -> (d/a, b/c)
C10_DualReciprocal(p) == <<C10_raw_div(C10_raw(1, 1), p[2]), C10_raw_div(p[1], C10_raw(1, 1))>>
C10_ReciprocalSwap(p) ==
    <<[num |-> p[2].den, den |-> p[1].num], [num |-> p[1].den, den |-> p[2].num]>>

C10_Seeds == <<C10_raw(19, 7), C10_raw(89, 11)>>
C10_Delta == C10_raw_div(C10_raw_sub(C10_Seeds[1], C10_Seeds[2]), C10_raw(11, 1))
C10_AfterRecomputed == C10_QuietStep(C10_QuietStep(C10_QuietStep(C10_Seeds)))
C10_AfterFixed ==
    C10_FixedStep(C10_FixedStep(C10_FixedStep(C10_Seeds, C10_Delta), C10_Delta), C10_Delta)

\* the pairs the claim can mean: delta recomputed at each of microticks 3, 6, 9
\* or the seed delta applied three times, followed by either psi-transform
C10_Expected ==
    {C10_DualReciprocal(C10_AfterRecomputed), C10_ReciprocalSwap(C10_AfterRecomputed),
     C10_DualReciprocal(C10_AfterFixed), C10_ReciprocalSwap(C10_AfterFixed)}

C10_Case ==
    /\ engine.psi_mode = "PSI_F"
    /\ engine.kappa_mode_default = "KAPPA_A"
    /\ engine.engine_mode = "ENG_Q"
    /\ seeds = <<DefaultUpsilonSeed, DefaultBetaSeed>>
    /\ advances = 11 /\ since_init = 11 /\ outcome = "ok"

\* C10: seeds 19/7 and 89/11 under {FORCED, ACCUMULATE, QUIET_ADDITIVE}: after
\* one macro-tick the pair has the value of three applications of delta
\* followed by one psi-transform, computed on unreduced fractions.
C10_EndToEnd ==
    C10_Case =>
        \E x \in C10_Expected :
            C10_SameValue(engine.upsilon, x[1]) /\ C10_SameValue(engine.beta, x[2])


\* the text is digits "/" digits, or digits alone
C11_IsFraction(s) ==
    /\ find_slash(s) # 0
    /\ \A i \in 1..Len(s) : i # find_slash(s) => s[i] \in Digits

C11_IsInteger(s) == \A i \in 1..Len(s) : s[i] \in Digits

\* C11: parsing "<a>/<b>" with b # 0 yields the fields a and b as written,
\* "<a>" yields a and 1, and a zero denominator or malformed text yields an
\* error and no value.
C11_ParseTotal ==
    last_call = "parse_rational" =>
        LET s == args[1]
            a == BigOf(DecVal(NumText(s, find_slash(s))))
            b == BigOf(DecVal(DenText(s, find_slash(s))))
        IN  IF C11_IsFraction(s) /\ ~BigIsZero(b)
            THEN ret.threw = "none" /\ ret.val.num = a /\ ret.val.den = b
            ELSE IF C11_IsInteger(s)
            THEN ret.threw = "none" /\ ret.val.num = BigOf(DecVal(s)) /\ ret.val.den = BigOne
            ELSE ret.threw # "none"


\* a token that names a policy of the C engine: one digit of the range
C12_Recognized(tok, hi) == Len(tok) = 1 /\ \E k \in 1..(hi + 1) : DigitChars[k] = tok[1]

\* C12: an unrecognized psi, koppa or engine token fails before any engine is
\* constructed or advanced: nothing is configured or run from such a command line.
C12_InvalidPolicyRejected ==
    last_call \in {"main", "run_trts", "trap"} =>
        /\ C12_Recognized(args.p, 3)
        /\ C12_Recognized(args.o, 2)
        /\ C12_Recognized(args.e, 2)


C13_Raw(n, d) == [num |-> BigOf(n), den |-> BigOf(d)]

\* C13: rational arithmetic never reduces: a/b + c/d has the fields
\* (a*d + c*b)/(b*d), a/b * c/d the fields (a*c)/(b*d) and a/b divided by c/d
\* the fields (a*d)/(b*c), with no GCD cancellation.
C13_NoReduction ==
    /\ last_call = "operator+" =>
          ret.val = C13_Raw(args[1][1] * args[2][2] + args[2][1] * args[1][2],
                            args[1][2] * args[2][2])
    /\ last_call = "operator*" =>
          ret.val = C13_Raw(args[1][1] * args[2][1], args[1][2] * args[2][2])
    /\ (last_call = "operator/" /\ ret.threw = "none") =>
          ret.val = C13_Raw(args[1][1] * args[2][2], args[1][2] * args[2][1])


C15_NonZeroDenominators ==
    last_call \in {"main", "run_trts", "trap"} =>
        /\ ~BigIsZero(engine.u.den)
        /\ ~BigIsZero(engine.b.den)
        /\ ~BigIsZero(engine.k.den)


\* m is a prime number
C16_PrimeNumber(m) == m > 1 /\ \A k \in 2..(m - 1) : m % k # 0

\* C16: isPrime(n) returns true exactly when |n| is a prime number, for
\* negatives, 0, 1, even numbers and odd composites alike.
C16_IsPrimeExact ==
    last_call \in {"is_miller_rabin_prime", "TRTS_Engine::is_miller_rabin_prime",
                   "external_is_prime"} =>
        (ret = C16_PrimeNumber(Abs(args[1])))

\* the same for the Miller-Rabin test of trts.h alone
C16_TrtsHExact ==
    last_call = "TRTS_Engine::is_miller_rabin_prime" =>
        (ret = C16_PrimeNumber(Abs(args[1])))


\* the update of the mode forced at an emission microtick
C17_Forced(e) ==
    IF e.microtick = 7 THEN koppa_ratio_feed(e)
    ELSE IF e.microtick = 10 THEN koppa_dump(e)
    ELSE koppa_accumulate(e)

\* C17: the koppa update executed at microtick 7 is the RATIO_FEED one, at
\* microtick 10 the DUMP one and at microticks 1 and 4 the ACCUMULATE one,
\* whatever the configured mode.
C17_PositionalOverride ==
    last_call \in {"update_koppa", "FIAT_LUX update_koppa"} =>
        (ret = C17_Forced(args[1]))

\* the same for update_koppa of the policy-driven engine alone
C17_PolicyEngineOverride ==
    last_call = "update_koppa" => (ret = C17_Forced(args[1]))


\* C18: the configured psi, koppa and engine modes keep their construction-time
\* values across every initialize_state, process_microtick and execute_tick
\* call; the positional koppa override is never written back.
C18_PoliciesImmutable ==
    [][/\ engine'.psi_mode = engine.psi_mode
       /\ engine'.kappa_mode_default = engine.kappa_mode_default
       /\ engine'.engine_mode = engine.engine_mode]_vars

\* an emission at microtick 10 (forced KAPPA_D) has just updated koppa on an
\* initialized engine configured KAPPA_A
C18_Witness ==
    /\ last_call = "process_microtick"
    /\ outcome = "ok"
    /\ seeds # <<>>
    /\ engine.microtick = 10
    /\ engine.rho > 0
    /\ engine.kappa_mode_default = "KAPPA_A"
    /\ engine.koppa # base.koppa


C19_Snapshot(e) == <<e.step, e.microtick, e.rho, e.upsilon, e.beta, e.koppa>>

C20_InitializeSetsSeeds ==
    /\ last_call = "initialize_state" =>
          /\ engine.upsilon = seeds[1]
          /\ engine.beta = seeds[2]
          /\ engine.upsilon_num_unreduced = seeds[1].num
          /\ engine.beta_num_unreduced = seeds[2].num
    /\ last_call = "shadow initialize_state" =>
          /\ engine.upsilon = seeds[1]
          /\ engine.beta = seeds[2]

\* the same for initialize_state of the policy-driven engine alone
C20_PolicyEngineSetsSeeds ==
    last_call = "initialize_state" =>
        /\ engine.upsilon = seeds[1]
        /\ engine.beta = seeds[2]
        /\ engine.upsilon_num_unreduced = seeds[1].num
        /\ engine.beta_num_unreduced = seeds[2].num


\* C21: engine arithmetic is exact at any magnitude: no addition or
\* multiplication of a run leaves the range of a fixed-width integer, so every
\* stored field is the value computed with unbounded integers.
C21_ExactArithmetic ==
    last_call \in {"run_trts", "trap"} => outcome # "signed overflow"


\* C22: the machine has no terminal state: in every reachable state a further
\* process_microtick call can be made and moves the microtick cycle on, to the
\* next microtick of 1..11, whether or not the call ends with an exception.
C22_NoTerminalState ==
    process_microtick(engine).st.microtick = (engine.microtick % 11) + 1

\* a call has just thrown, at the end of a cycle, and the next call completes
\* and opens the next cycle
C22_Witness ==
    /\ last_call = "process_microtick"
    /\ outcome = "DivideByZero"
    /\ engine.microtick = 11
    /\ ~process_microtick(engine).threw
    /\ process_microtick(engine).st.microtick = 1


\* C23: at an emission microtick rho becomes non-zero exactly when the absolute
\* value of the shadow numerator is prime, whatever upsilon's live numerator
\* and denominator are, and update_koppa runs exactly when rho is non-zero.
C23_RhoIffShadowPrime ==
    /\ last_call = "process_microtick emission" =>
          /\ (ret.st.rho > 0) = C16_PrimeNumber(Abs(IntOf(args[1].upsilon_num_unreduced)))
          /\ ret.st.rho > 0 => ret = update_koppa([args[1] EXCEPT !.rho = ret.st.rho], 1)
          /\ ret.st.rho = 0 => ret = [st |-> args[1], threw |-> FALSE]
    /\ last_call = "trts.h is_prime_trigger" =>
          (ret = C16_PrimeNumber(Abs(IntOf(args[1].upsilon_num_unreduced))))

\* the part of C23 that does not depend on the primality test: rho is what
\* is_prime_trigger answered for the shadow numerator, and update_koppa runs
\* exactly when rho is non-zero
C23_RhoIsTrigger ==
    last_call = "process_microtick emission" =>
        /\ (ret.st.rho > 0) = is_prime_trigger(args[1])
        /\ ret.st.rho > 0 => ret = update_koppa([args[1] EXCEPT !.rho = ret.st.rho], 1)
        /\ ret.st.rho = 0 => ret = [st |-> args[1], threw |-> FALSE]


\* upsilon and beta after the propagation of engine i from upsilon = u, beta = b,
\* diff and delta taken from u and b
C24_Diff(u, b) == rat_sub(u, b)
C24_Delta(u, b) == rat_div(rat_sub(u, b), RatOf(11, 1))
C24_Expected(i, u, b) ==
    IF EngineTypeAt[i] = "ENG_Q"
    THEN <<rat_add(u, C24_Delta(u, b)), rat_sub(b, C24_Delta(u, b))>>
    ELSE IF EngineTypeAt[i] = "ENG_A"
    THEN <<rat_add(u, C24_Diff(u, b)), rat_sub(b, C24_Diff(u, b))>>
    ELSE IF EngineTypeAt[i] = "ENG_M"
    THEN <<rat_add(u, rat_mul(u, C24_Delta(u, b))), rat_sub(b, rat_mul(b, C24_Delta(u, b)))>>
    ELSE <<b, u>>

\* the value of an int64 pair, none when its denominator is 0
C24_Value(r) == IF r.den = 0 THEN "none" ELSE RatOf(r.num, r.den)

C24_Inputs == <<args[1], RatOf(args[2][1], args[2][2]), RatOf(args[3][1], args[3][2])>>

\* C24: the configured engine is applied with diff = upsilon - beta and
\* delta = diff / 11 of the pre-step values: QUIET_ADDITIVE gives
\* (upsilon + delta, beta - delta), ADDITIVE (upsilon + diff, beta - diff),
\* MULTIPLICATIVE (upsilon + upsilon*delta, beta - beta*delta), ROTATIONAL
\* (beta, upsilon).
C24_PropagationEngines ==
    /\ last_call = "apply_propagation_engine" =>
          <<ret.upsilon, ret.beta>> = C24_Expected(C24_Inputs[1], C24_Inputs[2], C24_Inputs[3])
    /\ last_call = "part_002 apply_propagation_engine" =>
          <<C24_Value(ret.upsilon), C24_Value(ret.beta)>>
              = C24_Expected(C24_Inputs[1], C24_Inputs[2], C24_Inputs[3])

\* the same for the policy-driven engine alone
C24_PolicyEnginePropagation ==
    last_call = "apply_propagation_engine" =>
        <<ret.upsilon, ret.beta>> = C24_Expected(C24_Inputs[1], C24_Inputs[2], C24_Inputs[3])


\* the shadow numerators after the propagation of engine i from upsilon = u,
\* beta = b, both shadows being the numerators of u and b before it
C25_ExpectedShadow(i, u, b) ==
    IF EngineTypeAt[i] = "ENG_Q"
    THEN <<BigAdd(u.num, C24_Delta(u, b).num), BigSub(b.num, C24_Delta(u, b).num)>>
    ELSE <<u.num, b.num>>

\* C25: propagation under QUIET_ADDITIVE grows upsilonShadowNum by delta's
\* numerator and shrinks betaShadowNum by the same amount; propagation under
\* the other engines leaves both shadow numerators unchanged.
C25_ShadowLedger ==
    /\ last_call = "apply_propagation_engine" =>
          <<ret.upsilon_num_unreduced, ret.beta_num_unreduced>>
              = C25_ExpectedShadow(C24_Inputs[1], C24_Inputs[2], C24_Inputs[3])
    /\ (last_call = "FIAT_LUX apply_propagation_engine" /\ EngineTypeAt[args[1]] = "ENG_Q") =>
          <<ret.upsilon_num_unreduced, ret.beta_num_unreduced>>
              = C25_ExpectedShadow(C24_Inputs[1], C24_Inputs[2], C24_Inputs[3])

\* the same for the policy-driven engine alone
C25_PolicyEngineShadow ==
    last_call = "apply_propagation_engine" =>
        <<ret.upsilon_num_unreduced, ret.beta_num_unreduced>>
            = C25_ExpectedShadow(C24_Inputs[1], C24_Inputs[2], C24_Inputs[3])

\* in an engine run, a process_microtick call outside microticks 3, 6, 9
\* leaves both shadow numerators unchanged
C25_ShadowFrame ==
    [][(last_call' = "process_microtick" /\ ~is_propagation_point(engine'.microtick)) =>
          /\ engine'.upsilon_num_unreduced = engine.upsilon_num_unreduced
          /\ engine'.beta_num_unreduced = engine.beta_num_unreduced]_vars


C26_Upsilon == RatOf(args[1][1], args[1][2])
C26_Beta == RatOf(args[2][1], args[2][2])
C26_Koppa == RatOf(args[3][1], args[3][2])

\* C26: the dual-reciprocal psi-transform gives upsilon = koppa / beta and
\* beta = oldUpsilon / koppa, both from the values held before the transform.
C26_DualReciprocal ==
    /\ (last_call = "psi_transform" /\ ~ret.threw) =>
          /\ ret.st.upsilon = rat_div(C26_Koppa, C26_Beta)
          /\ ret.st.beta = rat_div(C26_Upsilon, C26_Koppa)
    /\ (/\ last_call = "TRTS_Engine.cpp~ psi_transform"
        /\ args[4] = "PSI_DUAL_RECIPROCAL"
        /\ ~ret.threw /\ ~RatIsZero(C26_Koppa)) =>
          /\ ret.st.upsilon = rat_div(C26_Koppa, C26_Beta)
          /\ ret.st.beta = rat_div(C26_Upsilon, C26_Koppa)

\* the same for psi_transform of the policy-driven engine alone
C26_PolicyEngineDual ==
    (last_call = "psi_transform" /\ ~ret.threw) =>
        /\ ret.st.upsilon = rat_div(C26_Koppa, C26_Beta)
        /\ ret.st.beta = rat_div(C26_Upsilon, C26_Koppa)


\* C27: the reciprocal-swap psi-transform of upsilon = a/b and beta = c/d gives
\* upsilon = d/a and beta = b/c, as raw fields where the fields are raw and as
\* values where the rational type reduces, on every input it is invoked on.
C27_ReciprocalSwap ==
    /\ last_call = "psi_transform_correct" =>
          /\ ret.upsilon = [num |-> args[2][2], den |-> args[1][1]]
          /\ ret.beta = [num |-> args[1][2], den |-> args[2][1]]
    /\ (/\ last_call \in {"TRTS_Engine.cpp~ psi_transform", "trts.h psi_transform"}
        /\ args[4] # "PSI_DUAL_RECIPROCAL"
        /\ args[1][1] # 0 /\ args[2][1] # 0) =>
          /\ ~ret.threw
          /\ ret.st.upsilon = RatOf(args[2][2], args[1][1])
          /\ ret.st.beta = RatOf(args[1][2], args[2][1])

\* the same for psi_transform_correct of the C engine alone
C27_CorrectSwap ==
    last_call = "psi_transform_correct" =>
        /\ ret.upsilon = [num |-> args[2][2], den |-> args[1][1]]
        /\ ret.beta = [num |-> args[1][2], den |-> args[2][1]]

\* C29: a psi-transform whose divisor has a zero numerator fails before
\* upsilon or beta is modified: after the failure both hold their pre-call
\* values; and the dual-reciprocal form fails whenever beta or koppa is zero.
C29_TransformFailsClean ==
    /\ last_call = "psi_transform" =>
          /\ ret.threw = (RatIsZero(C26_Beta) \/ RatIsZero(C26_Koppa))
          /\ ret.threw => (ret.st.upsilon = C26_Upsilon /\ ret.st.beta = C26_Beta)
    /\ last_call = "TRTS_Engine.cpp~ psi_transform" =>
          (ret.threw => (ret.st.upsilon = C26_Upsilon /\ ret.st.beta = C26_Beta))

\* the part of C29 that holds: the dual-reciprocal form of the policy-driven
\* engine fails exactly when beta or koppa is zero, and the form of
\* TRTS_Engine.cpp~ modifies nothing when it fails
C29_TransformFails ==
    /\ last_call = "psi_transform" =>
          (ret.threw = (RatIsZero(C26_Beta) \/ RatIsZero(C26_Koppa)))
    /\ last_call = "TRTS_Engine.cpp~ psi_transform" =>
          (ret.threw => (ret.st.upsilon = C26_Upsilon /\ ret.st.beta = C26_Beta))

C28_Balanced ==
    /\ last_call = "process_microtick"
    /\ engine.psi_mode = "PSI_C"
    /\ is_transformation_point(engine.microtick)
    /\ engine.koppa = RatOne
    /\ ~log[1].psi

\* the stored fields of koppa are in lowest terms with a positive
\* denominator, so the field test is the test of the value against 1
C28_StoredReduced ==
    /\ engine.koppa = Rational(engine.koppa.num, engine.koppa.den)
    /\ (engine.koppa.num = engine.koppa.den) <=> (engine.koppa = RatOne)

\* the koppa a ratio feed leaves: upsilon/beta times koppa, or times 1/1
\* when koppa is zero
C30_Expected(e) ==
    IF RatIsZero(e.koppa) THEN rat_div(e.upsilon, e.beta)
    ELSE rat_mul(e.koppa, rat_div(e.upsilon, e.beta))

\* the calls that take the ratio feed: update_koppa of part_000 when the
\* mode in force is KAPPA_F, update_koppa of TRTS_Engine.cpp~ under
\* KOPPA_RATIO_FEED
C30_RatioFeedCall ==
    \/ last_call = "update_koppa" /\ current_kappa_mode(args[1]) = "KAPPA_F"
    \/ last_call = "TRTS_Engine.cpp~ update_koppa" /\ args[1].koppa_mode = "KOPPA_RATIO_FEED"

\* C30: a ratio feed that completes leaves koppa * (upsilon/beta) when koppa
\* was not zero and exactly upsilon/beta when it was, changes nothing else,
\* and leaves koppa at zero only if upsilon is zero; this holds in part_000
\* and in TRTS_Engine.cpp~.
C30_RatioFeed ==
    (C30_RatioFeedCall /\ ~ret.threw)
        => /\ ret.st = [args[1] EXCEPT !.koppa = C30_Expected(args[1])]
           /\ RatIsZero(ret.st.koppa) => RatIsZero(args[1].upsilon)

\* a ratio feed on a zero koppa that left upsilon/beta, not zero
C30_Witness ==
    /\ C30_RatioFeedCall
    /\ RatIsZero(args[1].koppa)
    /\ ~ret.threw
    /\ ret.st.koppa = rat_div(args[1].upsilon, args[1].beta)
    /\ ~RatIsZero(ret.st.koppa)

\* C32: in the policy-driven engine rho is 0 after every call that processed
\* a transformation point (2, 5, 8, 11), the transformation branch leaving
\* rho as should_transform read it, and under PSI_R no process_microtick
\* call, single or inside execute_tick, runs psi_transform.
C32_RhoNeverTransforms ==
    /\ (last_call \in {"process_microtick", "execute_tick"}
            /\ is_transformation_point(engine.microtick)) => engine.rho = 0
    /\ engine.psi_mode = "PSI_R" => \A i \in 1..Len(log) : ~log[i].psi

\* a PSI_R engine that has gone through a whole cycle, the four emissions
\* included, and reached microtick 11 with rho 0 and without a psi_transform
C32_Witness ==
    /\ engine.psi_mode = "PSI_R"
    /\ last_call = "execute_tick"
    /\ outcome = "ok"
    /\ Len(log) = 11
    /\ engine.microtick = 11
    /\ engine.rho = 0
    /\ \A i \in 1..Len(log) : ~log[i].psi

\* the same in the shadow-core engine of TRTS_Engine.cpp~ and in trts.h, whose
\* process_microtick also opens with rho = 0
C32_ShadowCore ==
    /\ (last_call \in {"process_microtick", "execute_step"}
            /\ ~is_emission_point(engine.microtick)) => engine.rho = 0
    /\ args[2] = "PSI_RHO_TRIGGERED" => \A i \in 1..Len(log) : ~log[i].psi

\* a PSI_RHO_TRIGGERED run of TRTS_Engine.cpp~ whose first macro-tick set rho
\* at an emission, fed koppa, and ended without a psi_transform
C32_ShadowWitness ==
    /\ args[1] = "TRTS_Engine.cpp~"
    /\ args[2] = "PSI_RHO_TRIGGERED"
    /\ last_call = "execute_step"
    /\ outcome = "ok"
    /\ run = 1
    /\ engine.koppa # RatOne
    /\ \A i \in 1..Len(log) : ~log[i].psi

\* the engine e configured with psi mode psi instead of its own
C33_Configured(e, psi) == [e EXCEPT !.psi_mode = psi]

\* what a process_microtick call left, read with psi mode psi
C33_Read(r, psi) == [st |-> C33_Configured(r.st, psi), threw |-> r.threw, psi |-> r.psi]

\* the next process_microtick call of e and of e configured with PSI_F end the
\* same way and leave the same engine, the configured mode aside
C33_SameStep(e) ==
    C33_Read(process_microtick(e), "PSI_F") = process_microtick(C33_Configured(e, "PSI_F"))

\* C33: an engine configured with PSI_D moves in lockstep with the engine that
\* differs from it only by being configured with PSI_F: from every reachable
\* state the next call has the same outcome and leaves the same fields, and
\* seeding does not read the mode; and the calls a PSI_D engine made ran
\* psi_transform at microtick 11 and at no other microtick.
C33_DualIsForced ==
    engine.psi_mode = "PSI_D" =>
        /\ C33_SameStep(engine)
        /\ \A p \in SeedPairs :
              C33_Configured(initialize_state(engine, p[1], p[2]), "PSI_F")
                  = initialize_state(C33_Configured(engine, "PSI_F"), p[1], p[2])
        /\ \A i \in 1..Len(log) : log[i].psi <=> log[i].microtick = 11

\* a PSI_D engine whose last call ran psi_transform at microtick 11, after a
\* cycle whose emissions set rho
C33_Witness ==
    /\ engine.psi_mode = "PSI_D"
    /\ last_call = "process_microtick"
    /\ outcome = "ok"
    /\ advances >= 11
    /\ engine.microtick = 11
    /\ log[1].psi

\* what a process_microtick call left, read with configured koppa mode k
C34_Read(r, k) ==
    [st |-> [r.st EXCEPT !.kappa_mode_default = k], threw |-> r.threw, psi |-> r.psi]

\* the next process_microtick call of e ends the same way and leaves the same
\* fields when e is configured with koppa mode k instead of its own
C34_SameStep(e, k) ==
    C34_Read(process_microtick(e), k) = process_microtick([e EXCEPT !.kappa_mode_default = k])

\* C34: the configured koppa mode has no influence: from every reachable
\* state, the next call of the engine and of the engine that differs from it
\* only in the configured koppa mode have the same outcome and leave the same
\* fields, and seeding does not read the mode; and the mode in force at every
\* microtick at which update_koppa is reached is the positional one.
C34_KoppaModeInert ==
    /\ \A k \in KappaMode \ {engine.kappa_mode_default} : C34_SameStep(engine, k)
    /\ \A k \in KappaMode, p \in SeedPairs :
          [initialize_state(engine, p[1], p[2]) EXCEPT !.kappa_mode_default = k]
              = initialize_state([engine EXCEPT !.kappa_mode_default = k], p[1], p[2])
    /\ \A m \in {1, 4, 7, 10}, k \in KappaMode :
          current_kappa_mode([engine EXCEPT !.microtick = m, !.kappa_mode_default = k])
              = current_kappa_mode([engine EXCEPT !.microtick = m])

\* an engine configured with KAPPA_D whose last call, at microtick 4, ran
\* update_koppa and accumulated
C34_Witness ==
    /\ engine.kappa_mode_default = "KAPPA_D"
    /\ last_call = "process_microtick"
    /\ outcome = "ok"
    /\ engine.microtick = 4
    /\ engine.rho > 0
    /\ engine.koppa = rat_add(base.koppa, rat_sub(engine.upsilon, engine.beta))

\* upsilon_num_unreduced + beta_num_unreduced of the engine
C35_ShadowSum == BigAdd(engine.upsilon_num_unreduced, engine.beta_num_unreduced)

\* C35: the sum of the two shadow numerators is, in every state after
\* initialize_state, the sum of the numerators of the two seeds handed to it,
\* whatever the engine mode and the advances made since; before the first
\* initialize_state both are zero.
C35_ShadowSumConstant ==
    /\ seeds # <<>> => C35_ShadowSum = BigAdd(seeds[1].num, seeds[2].num)
    /\ seeds = <<>> => C35_ShadowSum = BigZero

\* an ENG_Q engine, seeded, whose propagations have moved both shadow
\* numerators away from the seed numerators
C35_Witness ==
    /\ seeds # <<>>
    /\ engine.engine_mode = "ENG_Q"
    /\ since_init >= 6
    /\ engine.upsilon_num_unreduced # seeds[1].num
    /\ engine.beta_num_unreduced # seeds[2].num
    /\ BigAdd(seeds[1].num, seeds[2].num) # BigZero

\* C36: a process_microtick call changes koppa only if the microtick it
\* processed is an emission point (1, 4, 7, 10) and left rho non-zero, so
\* propagation and transformation microticks, psi_transform included, leave
\* koppa as it was; and a call that processed an emission point leaves
\* upsilon, beta and both shadow numerators as they were.
C36_KoppaFrame ==
    [][last_call' = "process_microtick" =>
          /\ engine'.koppa # engine.koppa =>
                (is_emission_point(engine'.microtick) /\ engine'.rho > 0)
          /\ is_emission_point(engine'.microtick) =>
                /\ engine'.upsilon = engine.upsilon
                /\ engine'.beta = engine.beta
                /\ engine'.upsilon_num_unreduced = engine.upsilon_num_unreduced
                /\ engine'.beta_num_unreduced = engine.beta_num_unreduced]_vars

\* a call at microtick 11 that ran psi_transform to its end on a koppa other
\* than 1/1, in a cycle whose emissions had fed koppa
C36_Witness ==
    /\ last_call = "process_microtick"
    /\ outcome = "ok"
    /\ since_init >= 11
    /\ engine.microtick = 11
    /\ log[1].psi
    /\ engine.koppa # RatOne

\* C39: in a run_trts run with psi_behavior 2, rho is 0 and upsilon holds the
\* seed fields in every state of the run, at every microtick of every tick.
C39_MuNeverFires ==
    (last_call \in {"run_trts", "trap"} /\ ret.psi_behavior = 2) =>
        /\ engine.rho = 0
        /\ engine.u = ret.seed_u

\* a psi_behavior 2 run that has completed all its ticks, its propagations
\* having moved beta off its seed
C39_Witness ==
    /\ last_call = "run_trts"
    /\ ret.psi_behavior = 2
    /\ engine.tick = ret.total_ticks
    /\ engine.b # ret.seed_b
    /\ engine.rho = 0
    /\ engine.u = ret.seed_u

\* C40: in a run of the shadow-core engine made of execute_step() calls, the
\* microtick counter is 11 after the first macro-tick and grows by 11 with
\* each later one; from 11 on a process_microtick call changes nothing but
\* the counter, runs no psi_transform and cannot throw; and upsilon, beta and
\* koppa after every later macro-tick are those the first macro-tick left.
C40_FrozenAfterFirstTick ==
    /\ (since_init = 0 /\ outcome = "ok") => engine.microtick = 11 * run
    /\ engine.microtick >= 11 =>
          shadow_process_microtick(args[1], engine)
              = [st |-> [engine EXCEPT !.microtick = engine.microtick + 1, !.rho = 0],
                 threw |-> FALSE, psi |-> FALSE]
    /\ (since_init = 0 /\ outcome = "ok" /\ run >= 2) =>
          /\ engine.upsilon = base.upsilon
          /\ engine.beta = base.beta
          /\ engine.koppa = base.koppa
          /\ \A i \in 1..Len(log) : ~log[i].psi

\* a run of three macro-ticks, the first of which moved upsilon and koppa off
\* their initial values, with the counter at 33
C40_Witness ==
    /\ since_init = 0
    /\ last_call = "execute_step"
    /\ outcome = "ok"
    /\ run = 3
    /\ engine.microtick = 33
    /\ base.upsilon # RatOf(args[5], 7)
    /\ base.koppa # RatOne
    /\ engine.upsilon = base.upsilon
    /\ engine.koppa = base.koppa

\* C31: with forced emission rho is non-zero once microtick 10 is processed;
\* it is the FORCED code 4 exactly when rho was still 0 after the prime check
\* of microtick 10, and the koppa update then runs with 4 (update_koppa in
\* process_microtick_complete, the koppa ledger of the following microtick
\* 11 in trtssm.c); at every other microtick no FORCED code is assigned.
C31_AfterPrimeCheck ==
    sm_prime_emission(args[1], external_is_prime_64(args[1].upsilon.num, FALSE),
                               external_is_prime_64(args[1].upsilon.den, FALSE)).rho

C31_KoppaRunsWithCode ==
    IF last_call = "process_microtick_complete"
    THEN ret.koppa = p2_update_koppa([args[1] EXCEPT !.rho = 4], 4).koppa
    ELSE sm_process_microtick([ret EXCEPT !.microtick = 11], FALSE, FALSE).koppa
         = [num |-> BigAdd(BigMul(BigOf(2), ret.koppa.num), BigOf(8)),
            den |-> BigMul(BigOf(2), ret.koppa.den)]

C31_ForcedAtTen ==
    last_call \in {"process_microtick_complete", "trtssm.c process_microtick"} =>
        IF args[1].microtick = 10
        THEN /\ ret.rho # 0
             /\ ret.rho = 4 <=> C31_AfterPrimeCheck = 0
             /\ ret.rho = 4 => C31_KoppaRunsWithCode
        ELSE ret.rho = 4 => args[1].rho = 4

C31_WitnessOf(name) ==
    /\ last_call = name
    /\ args[1].microtick = 10
    /\ args[1].rho = 0
    /\ C31_AfterPrimeCheck = 0
    /\ ret.rho = 4
    /\ ret.koppa # args[1].koppa \/ name = "trtssm.c process_microtick"

C31_Witness == C31_WitnessOf("process_microtick_complete")

C31_SmWitness == C31_WitnessOf("trtssm.c process_microtick")

\* C37: in the engine of part_002 driven by initialize_state, rho is reset
\* only at the start of a step and upsilon's numerator at microtick 1 is a
\* Fibonacci prime, so rho is non-zero from microtick 1 on, microtick 10
\* included: the FORCED code 4 is never assigned and the forced-emission
\* count of the test suite stays 0.
C37_TestSuite == args[1] = "run_comprehensive_test_suite"

C37_NeverForced ==
    C37_TestSuite =>
        /\ engine.rho # 4
        /\ ret.forced_emissions = 0
        /\ ret.prime_emissions = run
        /\ engine.microtick = 1 =>
              /\ engine.rho = 0
              /\ engine.upsilon.num = BigOf(FIB_PRIMES[(run % 7) + 1])
              /\ external_is_prime_64(engine.upsilon.num, FALSE)
        /\ engine.microtick > 1 => engine.rho \in 1..3

C37_Witness ==
    /\ C37_TestSuite
    /\ last_call = "process_microtick"
    /\ engine.microtick = 11
    /\ run >= 1
    /\ ~external_is_prime_64(engine.upsilon.num, TRUE)
    /\ ~external_is_prime_64(engine.upsilon.den, TRUE)
    /\ engine.rho \in 1..3
    /\ ret.prime_emissions >= 1
    /\ ret.forced_emissions = 0

\* C38: in the SM-model engine psi_transform changes upsilon and beta only
\* when its product-invariance check passes; the seeds set by
\* initialize_fibonacci_prime_seeds have upsilon.num squared different from
\* beta.den squared, the check fails on them, and at the end of every step
\* upsilon and beta equal the seeds of that step.
C38_SmDriver == args[1] = "trts_propagation_loop"

C38_SeedsOf(tick) ==
    [upsilon |-> P2Rational(FIB_PRIMES[(tick % 7) + 1], FIB_PRIMES[((tick + 1) % 7) + 1]),
     beta |-> P2Rational(FIB_PRIMES[((tick + 2) % 7) + 1], FIB_PRIMES[((tick + 3) % 7) + 1])]

C38_SeedsKept ==
    C38_SmDriver =>
        /\ base = C38_SeedsOf(run)
        /\ fib_seeds(engine) = base
        /\ fib_seeds(sm_psi_transform(engine)) = base
        /\ BigMul(engine.upsilon.num, engine.upsilon.num)
              # BigMul(engine.beta.den, engine.beta.den)
        /\ outcome = "ok"

C38_Witness ==
    /\ C38_SmDriver
    /\ last_call = "process_microtick"
    /\ engine.microtick = 12
    /\ run >= 1
    /\ engine.koppa # P2Rational(1, 1)
    /\ fib_seeds(engine) = C38_SeedsOf(run)

\* the check of psi_transform of trtssm.c on the fields a/b, c/d, computed
\* without the width: a*c * (2b * (2d + a)) = ((2a + d) * 2c) * (b*d)
C38_CheckPasses(u, b) ==
    BigMul(BigMul(u.num, b.num),
           BigMul(BigMul(BigOf(2), u.den), BigAdd(BigMul(BigOf(2), b.den), u.num)))
      = BigMul(BigMul(BigAdd(BigMul(BigOf(2), u.num), b.den), BigMul(BigOf(2), b.num)),
               BigMul(u.den, b.den))

\* psi_transform on its own: it stores the new fields exactly when the check
\* passes, and with upsilon.den and beta.num non-zero the check passes
\* exactly when upsilon.num squared equals beta.den squared
C38_CheckNeedsSquares ==
    last_call = "trtssm.c psi_transform" =>
        /\ fib_seeds(ret) # fib_seeds(args[1]) => C38_CheckPasses(args[1].upsilon, args[1].beta)
        /\ C38_CheckPasses(args[1].upsilon, args[1].beta) =>
              /\ ret.upsilon = [num |-> BigAdd(BigMul(BigOf(2), args[1].upsilon.num), args[1].beta.den),
                                den |-> BigMul(BigOf(2), args[1].upsilon.den)]
              /\ ret.beta = [num |-> BigMul(BigOf(2), args[1].beta.num),
                             den |-> BigAdd(BigMul(BigOf(2), args[1].beta.den), args[1].upsilon.num)]
        /\ ~BigIsZero(args[1].upsilon.den) /\ ~BigIsZero(args[1].beta.num) =>
              (C38_CheckPasses(args[1].upsilon, args[1].beta)
                 <=> BigMul(args[1].upsilon.num, args[1].upsilon.num)
                       = BigMul(args[1].beta.den, args[1].beta.den))

C38_PsiWitness ==
    /\ last_call = "trtssm.c psi_transform"
    /\ fib_seeds(ret) # fib_seeds(args[1])
    /\ ~BigIsZero(args[1].upsilon.den) /\ ~BigIsZero(args[1].beta.num)
    /\ args[1].upsilon.num # args[1].beta.den

====
